---- MODULE Spec2Model ----
(***************************************************************************)
(* State-machine model of the Stripe B2B payments API: the Singleton       *)
(* metaclass, the three domain services with their in-memory stores, the   *)
(* Stripe gateway wrapper, and the FastAPI routes in front of them.        *)
(*                                                                         *)
(* Conventions.                                                            *)
(*  - Optional[T] is <<>> (None) or <<v>> (a value).                        *)
(*  - A Decimal amount is an integer number of thousandths of a major      *)
(*    unit (1999 is Decimal("1.999")), so amount * 100 is an integer       *)
(*    number of thousandths of a minor unit.                               *)
(*  - A dict is a sequence of records in insertion order (stores), or a    *)
(*    set of <<key, value>> pairs (metadata), or a record (call kwargs).   *)
(*  - uuid4() is a fresh <<"uuid", n>>; provider ids are <<"pi", n>>,      *)
(*    <<"re", n>>, <<"sub", n>>.                                           *)
(***************************************************************************)
EXTENDS Integers, Sequences, FiniteSets, TLC

VARIABLES
    instances,      \* Singleton._instances: class name -> None or <<instance>>
    built,          \* class name -> number of instances constructed so far
    payments,       \* PaymentService._payments, one store per instance
    refunds,        \* RefundService._refunds, one store per instance
    subscriptions,  \* SubscriptionService._subscriptions, one store per instance
    clock,          \* the time datetime.utcnow() last returned
    uuids,          \* number of uuid4() values drawn
    stripe,         \* the provider: objects it has created
    reqs,           \* requests in flight: position in dependency resolution
    last            \* the last completed call: inputs, response, gateway calls

vars == <<instances, built, payments, refunds, subscriptions, clock, uuids,
          stripe, reqs, last>>

----------------------------------------------------------------------------
\* Bounds of the model.

MaxPayments == 2
MaxListed == 5
MaxRefunds == 3
MaxSubscriptions == 2
MaxClock == 1
NumRequests == 2
MaxCreates == 2
ChargedCents == 3

----------------------------------------------------------------------------
\* Python values.

None == <<>>
Some(v) == <<v>>

Min(a, b) == IF a < b THEN a ELSE b
Max(a, b) == IF a > b THEN a ELSE b

\* bool(s) of an Optional[str]
TruthyStr(o) == o # None /\ o[1] # ""
\* bool(s) of an Optional[str] that holds an id; <<>> is the empty string
TruthyId(o) == o # None /\ o[1] # <<>>
\* bool(n) of an Optional[int] or Optional[Decimal]
TruthyNum(o) == o # None /\ o[1] # 0
\* bool(d) of an Optional[dict]
TruthyDict(o) == o # None /\ o[1] # {}

\* int(x) of a Decimal x given in thousandths: truncation toward zero
int(x) == IF x >= 0 THEN x \div 1000 ELSE 0 - ((0 - x) \div 1000)

\* s[a:b] of a list
PySlice(s, a, b) ==
    LET n  == Len(s)
        lo == IF a < 0 THEN Max(a + n, 0) ELSE Min(a, n)
        hi == IF b < 0 THEN Max(b + n, 0) ELSE Min(b, n)
    IN  IF lo >= hi THEN <<>> ELSE SubSeq(s, lo + 1, hi)

\* list.sort(key=lambda p: p.created_at, reverse=True): stable, so records
\* with equal keys keep their original relative order
RECURSIVE InsertDesc(_, _)
InsertDesc(sorted, rec) ==
    IF sorted = <<>> THEN <<rec>>
    ELSE IF Head(sorted).created_at >= rec.created_at
         THEN <<Head(sorted)>> \o InsertDesc(Tail(sorted), rec)
         ELSE <<rec>> \o sorted

RECURSIVE SortDesc(_)
SortDesc(s) ==
    IF s = <<>> THEN <<>>
    ELSE InsertDesc(SortDesc(SubSeq(s, 1, Len(s) - 1)), s[Len(s)])

\* d.get(key) of a store
DictGet(store, key) ==
    IF \E i \in 1..Len(store) : store[i].id = key
    THEN Some(store[CHOOSE i \in 1..Len(store) : store[i].id = key])
    ELSE None

\* d[key] = rec of a store: replace in place, or append a new key
DictPut(store, key, rec) ==
    IF \E i \in 1..Len(store) : store[i].id = key
    THEN [i \in 1..Len(store) |-> IF store[i].id = key THEN rec ELSE store[i]]
    ELSE Append(store, rec)

Keys(store) == {store[i].id : i \in 1..Len(store)}

----------------------------------------------------------------------------
\* app/core/singleton.py

Classes == {"StripeService", "PaymentService", "RefundService",
            "SubscriptionService"}

\* Singleton.__call__, line 23: cls not in cls._instances
Singleton_absent(inst, cls) == inst[cls] = None

\* Singleton.__call__, line 24: construct, then register under cls
Singleton_register(inst, cls, obj) == [inst EXCEPT ![cls] = Some(obj)]

\* Singleton.__call__, line 25: return cls._instances[cls]
Singleton_return(inst, cls) == inst[cls][1]

\* Singleton.__call__ run without interruption by one thread
Singleton_call(inst, n, cls) ==
    IF Singleton_absent(inst, cls)
    THEN [instances |-> Singleton_register(inst, cls, n[cls] + 1),
          built     |-> [n EXCEPT ![cls] = @ + 1],
          obj       |-> Singleton_return(
                            Singleton_register(inst, cls, n[cls] + 1), cls)]
    ELSE [instances |-> inst, built |-> n, obj |-> Singleton_return(inst, cls)]

\* the stores after the constructors of n[cls] instances have run
\* (PaymentService.__init__: self._payments = {})
WithNewStores(stores, count) ==
    [i \in 1..count |-> IF i <= Len(stores) THEN stores[i] ELSE <<>>]

StoreOf(stores, obj) == IF obj \in 1..Len(stores) THEN stores[obj] ELSE <<>>

----------------------------------------------------------------------------
\* app/constants.py

PENDING == "pending"
SUCCEEDED == "succeeded"
FAILED == "failed"
PaymentStatus == {PENDING, SUCCEEDED, FAILED, "canceled",
                  "requires_payment_method", "requires_confirmation",
                  "requires_action", "processing"}

ACTIVE == "active"
CANCELED == "canceled"
TRIALING == "trialing"
SubscriptionStatus == {ACTIVE, CANCELED, "incomplete", "incomplete_expired",
                       "past_due", TRIALING, "unpaid"}

MAX_PAGE_SIZE == 100
DEFAULT_PAGE_SIZE == 10

\* text, as a tuple of characters, for the messages whose wording is tested
NOT_FOUND_ERROR == <<"N","o","t"," ","F","o","u","n","d">>
NOT_FOUND_MESSAGE == <<"T","h","e"," ","r","e","q","u","e","s","t","e","d"," ",
                       "r","e","s","o","u","r","c","e"," ","w","a","s"," ",
                       "n","o","t"," ","f","o","u","n","d">>
PAYMENT_NOT_FOUND == <<"P","a","y","m","e","n","t"," ","n","o","t"," ",
                       "f","o","u","n","d">>
PAYMENT_CREATED == "Payment created successfully"
FAILED_TO_CREATE_PAYMENT == "Failed to create payment"
FAILED_TO_LIST_PAYMENTS == "Failed to list payments"
STRIPE_TEST_PAYMENT_METHOD == "pm_card_visa"
STRIPE_RETURN_URL == "https://example.com/return"

----------------------------------------------------------------------------
\* The provider behind the stripe SDK.  It is outside the repository: a call
\* either fails (ok = FALSE: network, authentication, business rule) or
\* answers with a new object.

\* the status the provider gives a new intent: one confirmed at creation
\* with the test card is paid at once, any other waits for a payment method
PaymentIntent_first_status(intent_data) ==
    IF "confirm" \in DOMAIN intent_data
    THEN "succeeded" ELSE "requires_payment_method"

\* stripe.PaymentIntent.create(**intent_data): the provider rejects an amount
\* that is not a positive integer; otherwise the id of the new intent
PaymentIntent_create(st, intent_data, ok) ==
    IF ok /\ intent_data.amount >= 1
    THEN [raised |-> FALSE, id |-> <<"pi", st.intents + 1>>,
          stripe |-> [st EXCEPT
                        !.intents = @ + 1,
                        !.status = Append(@,
                                       PaymentIntent_first_status(intent_data))]]
    ELSE [raised |-> TRUE, id |-> <<"pi", 0>>, stripe |-> st]

\* stripe.PaymentIntent.retrieve(id): the intent as the provider has it now;
\* the provider rejects an id it did not issue
PaymentIntent_retrieve(st, payment_intent_id, ok) ==
    IF ok /\ payment_intent_id[1] = "pi"
          /\ payment_intent_id[2] \in 1..st.intents
    THEN [raised |-> FALSE,
          obj |-> Some([id |-> payment_intent_id,
                        status |-> st.status[payment_intent_id[2]]])]
    ELSE [raised |-> TRUE, obj |-> None]

\* the provider's unix time at tick t of the clock: seconds since 1970, never
\* 0 for an object made by this program
unix(t) == t + 1

\* stripe.Subscription.create(**subscription_data): a new subscription whose
\* period starts at the provider's time t; it is on trial when a trial
\* length was sent
Subscription_create(st, subscription_data, ok, t) ==
    LET trial == "trial_period_days" \in DOMAIN subscription_data
        obj == [id |-> <<"sub", Len(st.subscriptions) + 1>>,
                customer |-> subscription_data.customer,
                status |-> IF trial THEN TRIALING ELSE ACTIVE,
                current_period_start |-> unix(t),
                current_period_end |-> unix(t) + 30,
                trial_start |-> IF trial THEN Some(unix(t)) ELSE None,
                trial_end |-> IF trial
                              THEN Some(unix(t)
                                        + subscription_data.trial_period_days)
                              ELSE None,
                cancel_at_period_end |-> FALSE,
                canceled_at |-> None]
    IN  IF ok
        THEN [raised |-> FALSE, obj |-> Some(obj),
              stripe |-> [st EXCEPT !.subscriptions = Append(@, obj)]]
        ELSE [raised |-> TRUE, obj |-> None, stripe |-> st]

\* stripe.Subscription.modify(id, cancel_at_period_end=True): the provider
\* marks the subscription and stamps canceled_at the first time
Subscription_modify(st, subscription_id, kwargs, ok, t) ==
    LET known == {i \in 1..Len(st.subscriptions) :
                     Some(st.subscriptions[i].id) = subscription_id}
    IN  IF ok /\ known # {}
        THEN LET i   == CHOOSE k \in known : TRUE
                 old == st.subscriptions[i]
                 new == [old EXCEPT
                           !.cancel_at_period_end = kwargs.cancel_at_period_end,
                           !.canceled_at = IF @ = None THEN Some(unix(t))
                                           ELSE @]
             IN  [raised |-> FALSE, obj |-> Some(new),
                  stripe |-> [st EXCEPT !.subscriptions[i] = new]]
        ELSE [raised |-> TRUE, obj |-> None, stripe |-> st]

\* stripe.Refund.create(**refund_data): refunds the amount sent, or, when no
\* amount is sent, all that is left of the charge; the provider rejects an
\* unknown intent, an amount that is not a positive integer, and more than
\* is left
Refund_create(st, refund_data, ok, t) ==
    LET pi     == refund_data.payment_intent
        known  == pi \in DOMAIN st.charges
        left   == IF known THEN st.charges[pi].amount - st.charges[pi].refunded
                  ELSE 0
        amount == IF "amount" \in DOMAIN refund_data
                  THEN refund_data.amount ELSE left
    IN  IF ok /\ known /\ amount >= 1 /\ amount <= left
        THEN LET obj == [id |-> <<"re", Len(st.refunds) + 1>>,
                         payment_intent |-> pi,
                         amount |-> amount,
                         currency |-> st.charges[pi].currency,
                         status |-> "succeeded",
                         created |-> t]
             IN  [raised |-> FALSE, obj |-> Some(obj),
                  stripe |-> [st EXCEPT !.refunds = Append(@, obj),
                                        !.charges[pi].refunded = @ + amount]]
        ELSE [raised |-> TRUE, obj |-> None, stripe |-> st]

----------------------------------------------------------------------------
\* app/services/stripe_service.py

\* StripeService.create_payment_intent: the kwargs of PaymentIntent.create
StripeService_create_payment_intent(amount, currency, customer_id, metadata) ==
    [amount |-> amount, currency |-> currency,
     automatic_payment_methods |-> "enabled"]
    @@ (IF TruthyStr(customer_id) THEN [customer |-> customer_id[1]] ELSE <<>>)
    @@ (IF TruthyDict(metadata) THEN [metadata |-> metadata[1]] ELSE <<>>)

\* StripeService.create_test_payment_intent: the kwargs of PaymentIntent.create
StripeService_create_test_payment_intent(amount, currency, customer_id, metadata) ==
    [amount |-> amount, currency |-> currency,
     automatic_payment_methods |-> "enabled", confirm |-> TRUE,
     payment_method |-> STRIPE_TEST_PAYMENT_METHOD,
     return_url |-> STRIPE_RETURN_URL]
    @@ (IF TruthyStr(customer_id) THEN [customer |-> customer_id[1]] ELSE <<>>)
    @@ (IF TruthyDict(metadata) THEN [metadata |-> metadata[1]] ELSE <<>>)

\* StripeService.create_subscription: the kwargs of Subscription.create
StripeService_create_subscription(customer_id, price_id, trial_period_days, metadata) ==
    [customer |-> customer_id, items |-> <<[price |-> price_id]>>]
    @@ (IF TruthyNum(trial_period_days)
        THEN [trial_period_days |-> trial_period_days[1]] ELSE <<>>)
    @@ (IF TruthyDict(metadata) THEN [metadata |-> metadata[1]] ELSE <<>>)

\* StripeService.cancel_subscription: the kwargs of Subscription.modify
StripeService_cancel_subscription(subscription_id) ==
    [cancel_at_period_end |-> TRUE]

\* create_refund testing "amount is not None" after defaulting it to 0
StripeService_create_refund_zero(payment_intent_id, amount, reason) ==
    [payment_intent |-> payment_intent_id,
     amount |-> IF amount = None THEN 0 ELSE amount[1]]

\* StripeService.get_payment_intent_status: retrieve, then read .status
StripeService_get_payment_intent_status(st, payment_intent_id, ok) ==
    LET answer == PaymentIntent_retrieve(st, payment_intent_id, ok)
    IN  IF answer.raised THEN [raised |-> TRUE, ret |-> None]
        ELSE [raised |-> FALSE, ret |-> Some(answer.obj[1].status)]

\* StripeService.create_refund: the kwargs of Refund.create
StripeService_create_refund(payment_intent_id, amount, reason) ==
    [payment_intent |-> payment_intent_id]
    @@ (IF TruthyNum(amount) THEN [amount |-> amount[1]] ELSE <<>>)

----------------------------------------------------------------------------
\* app/services/payment_service.py

\* create_payment, line 41: amount_cents = int(request.amount * 100)
amount_cents(amount) == int(amount * 100)

\* create_payment, lines 44-57: the gateway call the service makes
PaymentService_intent_data(request, test_mode) ==
    IF test_mode
    THEN StripeService_create_test_payment_intent(
             amount_cents(request.amount), request.currency,
             request.customer_id, request.metadata)
    ELSE StripeService_create_payment_intent(
             amount_cents(request.amount), request.currency,
             request.customer_id, request.metadata)

\* the record stored as succeeded from the start
PaymentResponse_done(payment_id, request, now, stripe_intent_id) ==
    [id |-> payment_id,
     amount |-> request.amount,
     currency |-> request.currency,
     status |-> SUCCEEDED,
     description |-> request.description,
     created_at |-> now,
     updated_at |-> now,
     stripe_payment_intent_id |-> Some(stripe_intent_id),
     customer_id |-> request.customer_id,
     metadata |-> request.metadata]

\* create_payment, lines 63-74: the record built from the request
PaymentResponse(payment_id, request, now, stripe_intent_id) ==
    [id |-> payment_id,
     amount |-> request.amount,
     currency |-> request.currency,
     status |-> PENDING,
     description |-> request.description,
     created_at |-> now,
     updated_at |-> now,
     stripe_payment_intent_id |-> Some(stripe_intent_id),
     customer_id |-> request.customer_id,
     metadata |-> request.metadata]

\* create_payment trying the gateway a second time when the first call fails
PaymentService_create_payment_retry(store, st, request, test_mode, ok, uuid, now) ==
    LET intent_data == PaymentService_intent_data(request, test_mode)
        intent  == PaymentIntent_create(st, intent_data, ok)
        payment == PaymentResponse(uuid, request, now, intent.id)
        calls   == <<[api |-> "PaymentIntent.create", kwargs |-> intent_data]>>
    IN  IF intent.raised
        THEN [raised |-> TRUE, ret |-> None, store |-> store,
              stripe |-> intent.stripe, calls |-> calls \o calls,
              drew |-> FALSE]
        ELSE [raised |-> FALSE, ret |-> Some(payment),
              store |-> DictPut(store, uuid, payment),
              stripe |-> intent.stripe, calls |-> calls, drew |-> TRUE]

\* PaymentService.create_payment: one gateway call, then store and return.
\* store: self._payments; ok: whether the provider answers; uuid, now: the
\* values uuid4() and utcnow() give
PaymentService_create_payment(store, st, request, test_mode, ok, uuid, now) ==
    LET intent_data == PaymentService_intent_data(request, test_mode)
        intent  == PaymentIntent_create(st, intent_data, ok)
        payment == PaymentResponse(uuid, request, now, intent.id)
        calls   == <<[api |-> "PaymentIntent.create", kwargs |-> intent_data]>>
    IN  IF intent.raised
        THEN [raised |-> TRUE, ret |-> None, store |-> store,
              stripe |-> intent.stripe, calls |-> calls, drew |-> FALSE]
        ELSE [raised |-> FALSE, ret |-> Some(payment),
              store |-> DictPut(store, uuid, payment),
              stripe |-> intent.stripe, calls |-> calls, drew |-> TRUE]

\* PaymentService.get_payment
PaymentService_get_payment(store, payment_id) == DictGet(store, payment_id)

\* get_payments taking the page number for the number of pages to skip
PaymentService_get_payments_skip(store, customer_id, page, per_page) ==
    LET Match(p) == p.customer_id = customer_id
        filtered == IF TruthyStr(customer_id)
                    THEN SelectSeq(store, Match) ELSE store
        sorted   == SortDesc(filtered)
        start    == page * per_page
        end      == start + per_page
    IN  PySlice(sorted, start, end)

\* get_payments without the filter step
PaymentService_get_payments_unfiltered(store, customer_id, page, per_page) ==
    LET sorted   == SortDesc(store)
        start    == (page - 1) * per_page
        end      == start + per_page
    IN  PySlice(sorted, start, end)

\* PaymentService.get_payments
PaymentService_get_payments(store, customer_id, page, per_page) ==
    LET Match(p) == p.customer_id = customer_id
        filtered == IF TruthyStr(customer_id)
                    THEN SelectSeq(store, Match) ELSE store
        sorted   == SortDesc(filtered)
        start    == (page - 1) * per_page
        end      == start + per_page
    IN  PySlice(sorted, start, end)

\* update_payment_status putting a record made anew under the id
PaymentService_update_payment_status_anew(store, payment_id, status, now) ==
    LET found == DictGet(store, payment_id)
    IN  IF found = None
        THEN [ret |-> None, store |-> store, drew |-> FALSE]
        ELSE LET payment == [found[1] EXCEPT !.status = status,
                                             !.created_at = now,
                                             !.updated_at = now]
             IN  [ret |-> Some(payment),
                  store |-> DictPut(store, payment_id, payment),
                  drew |-> TRUE]

\* update_payment_status leaving updated_at as it was
PaymentService_update_payment_status_stale(store, payment_id, status, now) ==
    LET found == DictGet(store, payment_id)
    IN  IF found = None
        THEN [ret |-> None, store |-> store, drew |-> FALSE]
        ELSE LET payment == [found[1] EXCEPT !.status = status]
             IN  [ret |-> Some(payment),
                  store |-> DictPut(store, payment_id, payment),
                  drew |-> TRUE]

\* PaymentService.update_payment_status: status and updated_at of the stored
\* record are set, and the record is put back under its id
PaymentService_update_payment_status(store, payment_id, status, now) ==
    LET found == DictGet(store, payment_id)
    IN  IF found = None
        THEN [ret |-> None, store |-> store, drew |-> FALSE]
        ELSE LET payment == [found[1] EXCEPT !.status = status,
                                             !.updated_at = now]
             IN  [ret |-> Some(payment),
                  store |-> DictPut(store, payment_id, payment),
                  drew |-> TRUE]

\* SetAll(store, hits, status, now): the loop of a handler without its break,
\* every stored payment with the intent's id getting the status
RECURSIVE SetAll(_, _, _, _)
SetAll(store, hits, status, now) ==
    IF hits = {} THEN store
    ELSE LET i == CHOOSE k \in hits : TRUE
         IN  SetAll(PaymentService_update_payment_status(
                        store, store[i].id, status, now).store,
                    hits \ {i}, status, now)

\* the handlers without the break
PaymentService_handle_payment_all(store, payment_intent, status, now) ==
    LET hits == {i \in 1..Len(store) :
                    store[i].stripe_payment_intent_id
                        = Some(payment_intent.id)}
    IN  [ret |-> None, store |-> SetAll(store, hits, status, now),
         drew |-> hits # {}]

\* _handle_payment_succeeded and _handle_payment_failed: the first stored
\* payment with the intent's id gets the status
PaymentService_handle_payment(store, payment_intent, status, now) ==
    LET hits == {i \in 1..Len(store) :
                    store[i].stripe_payment_intent_id
                        = Some(payment_intent.id)}
    IN  IF hits = {}
        THEN [ret |-> None, store |-> store, drew |-> FALSE]
        ELSE LET first == CHOOSE i \in hits : \A k \in hits : i <= k
             IN  PaymentService_update_payment_status(
                     store, store[first].id, status, now)

\* process_webhook taking every event that is not a success for a failure
PaymentService_process_webhook_else(store, event_data, now) ==
    IF event_data.type = "payment_intent.succeeded"
    THEN PaymentService_handle_payment(store, event_data.data.object,
                                       SUCCEEDED, now)
    ELSE PaymentService_handle_payment(store, event_data.data.object,
                                       FAILED, now)

\* PaymentService.process_webhook
PaymentService_process_webhook(store, event_data, now) ==
    IF event_data.type = "payment_intent.succeeded"
    THEN PaymentService_handle_payment(store, event_data.data.object,
                                       SUCCEEDED, now)
    ELSE IF event_data.type = "payment_intent.payment_failed"
    THEN PaymentService_handle_payment(store, event_data.data.object,
                                       FAILED, now)
    ELSE [ret |-> None, store |-> store, drew |-> FALSE]

----------------------------------------------------------------------------
\* app/services/subscription_service.py

\* datetime.fromtimestamp(ts): the naive local time of the instant ts
fromtimestamp(ts) == [local |-> ts]

\* datetime.fromtimestamp(x) if x else None
fromtimestamp_if(x) == IF TruthyNum(x) THEN Some(fromtimestamp(x[1])) ELSE None

\* the record with the status decided by "trial_period_days is not None"
SubscriptionResponse_asked(subscription_id, request, stripe_subscription, now) ==
    [id |-> subscription_id,
     customer_id |-> request.customer_id,
     status |-> IF request.trial_period_days = None
                THEN ACTIVE ELSE TRIALING,
     current_period_start |->
         fromtimestamp(stripe_subscription.current_period_start),
     current_period_end |->
         fromtimestamp(stripe_subscription.current_period_end),
     trial_start |-> fromtimestamp_if(stripe_subscription.trial_start),
     trial_end |-> fromtimestamp_if(stripe_subscription.trial_end),
     cancel_at_period_end |-> stripe_subscription.cancel_at_period_end,
     canceled_at |-> fromtimestamp_if(stripe_subscription.canceled_at),
     stripe_subscription_id |-> Some(stripe_subscription.id),
     metadata |-> request.metadata,
     created_at |-> now,
     updated_at |-> now]

\* create_subscription, lines 54-68: the record built from the request and
\* the provider's answer
SubscriptionResponse(subscription_id, request, stripe_subscription, now) ==
    [id |-> subscription_id,
     customer_id |-> request.customer_id,
     status |-> IF ~TruthyNum(request.trial_period_days)
                THEN ACTIVE ELSE TRIALING,
     current_period_start |->
         fromtimestamp(stripe_subscription.current_period_start),
     current_period_end |->
         fromtimestamp(stripe_subscription.current_period_end),
     trial_start |-> fromtimestamp_if(stripe_subscription.trial_start),
     trial_end |-> fromtimestamp_if(stripe_subscription.trial_end),
     cancel_at_period_end |-> stripe_subscription.cancel_at_period_end,
     canceled_at |-> fromtimestamp_if(stripe_subscription.canceled_at),
     stripe_subscription_id |-> Some(stripe_subscription.id),
     metadata |-> request.metadata,
     created_at |-> now,
     updated_at |-> now]

\* SubscriptionService.create_subscription
SubscriptionService_create_subscription(store, st, request, ok, uuid, now) ==
    LET kwargs == StripeService_create_subscription(
                      request.customer_id, request.price_id,
                      request.trial_period_days, request.metadata)
        answer == Subscription_create(st, kwargs, ok, now)
        calls  == <<[api |-> "Subscription.create", kwargs |-> kwargs]>>
    IN  IF answer.raised
        THEN [raised |-> TRUE, ret |-> None, store |-> store,
              stripe |-> answer.stripe, calls |-> calls, drew |-> FALSE]
        ELSE LET subscription ==
                     SubscriptionResponse(uuid, request, answer.obj[1], now)
             IN  [raised |-> FALSE, ret |-> Some(subscription),
                  store |-> DictPut(store, uuid, subscription),
                  stripe |-> answer.stripe, calls |-> calls, drew |-> TRUE]

\* get_subscription reading the record through a fresh copy that drops the
\* metadata
SubscriptionService_get_subscription_nometa(store, subscription_id) ==
    IF DictGet(store, subscription_id) = None THEN None
    ELSE Some([DictGet(store, subscription_id)[1] EXCEPT !.metadata = None])

\* SubscriptionService.get_subscription
SubscriptionService_get_subscription(store, subscription_id) ==
    DictGet(store, subscription_id)

\* SubscriptionService.get_subscriptions
SubscriptionService_get_subscriptions(store, customer_id, page, per_page) ==
    LET Match(x) == Some(x.customer_id) = customer_id
        filtered == IF TruthyStr(customer_id)
                    THEN SelectSeq(store, Match) ELSE store
        sorted   == SortDesc(filtered)
        start    == (page - 1) * per_page
        end      == start + per_page
    IN  PySlice(sorted, start, end)

\* cancel_subscription treating a subscription that is canceled already as
\* not found
SubscriptionService_cancel_subscription_once(store, st, subscription_id, ok, now) ==
    LET found == DictGet(store, subscription_id)
    IN  IF found = None \/ found[1].status = CANCELED
        THEN [raised |-> FALSE, ret |-> None, store |-> store, stripe |-> st,
              calls |-> <<>>, drew |-> FALSE]
        ELSE LET subscription == found[1]
                 kwargs == StripeService_cancel_subscription(
                               subscription.stripe_subscription_id)
                 answer == Subscription_modify(
                               st, subscription.stripe_subscription_id,
                               kwargs, ok, now)
                 calls  == <<[api |-> "Subscription.modify",
                              id |-> subscription.stripe_subscription_id,
                              kwargs |-> kwargs]>>
             IN  IF answer.raised
                 THEN [raised |-> TRUE, ret |-> None, store |-> store,
                       stripe |-> answer.stripe, calls |-> calls,
                       drew |-> FALSE]
                 ELSE LET updated == [subscription EXCEPT
                              !.status = CANCELED,
                              !.updated_at = now]
                      IN  [raised |-> FALSE, ret |-> Some(updated),
                           store |-> DictPut(store, subscription_id, updated),
                           stripe |-> answer.stripe, calls |-> calls,
                           drew |-> TRUE]

\* cancel_subscription marking the record canceled before it calls the
\* provider
SubscriptionService_cancel_subscription_eager(store, st, subscription_id, ok, now) ==
    LET found == DictGet(store, subscription_id)
    IN  IF found = None
        THEN [raised |-> FALSE, ret |-> None, store |-> store, stripe |-> st,
              calls |-> <<>>, drew |-> FALSE]
        ELSE LET subscription == [found[1] EXCEPT !.status = CANCELED]
                 kwargs == StripeService_cancel_subscription(
                               subscription.stripe_subscription_id)
                 answer == Subscription_modify(
                               st, subscription.stripe_subscription_id,
                               kwargs, ok, now)
                 calls  == <<[api |-> "Subscription.modify",
                              id |-> subscription.stripe_subscription_id,
                              kwargs |-> kwargs]>>
             IN  IF answer.raised
                 THEN [raised |-> TRUE, ret |-> None,
                       store |-> DictPut(store, subscription_id,
                                         subscription),
                       stripe |-> answer.stripe, calls |-> calls,
                       drew |-> FALSE]
                 ELSE LET updated == [subscription EXCEPT
                              !.cancel_at_period_end =
                                  answer.obj[1].cancel_at_period_end,
                              !.canceled_at =
                                  fromtimestamp_if(answer.obj[1].canceled_at),
                              !.updated_at = now]
                      IN  [raised |-> FALSE, ret |-> Some(updated),
                           store |-> DictPut(store, subscription_id, updated),
                           stripe |-> answer.stripe, calls |-> calls,
                           drew |-> TRUE]

\* cancel_subscription stamping canceled_at with the time of the call instead
\* of the provider's answer
SubscriptionService_cancel_subscription_local(store, st, subscription_id, ok, now) ==
    LET found == DictGet(store, subscription_id)
    IN  IF found = None
        THEN [raised |-> FALSE, ret |-> None, store |-> store, stripe |-> st,
              calls |-> <<>>, drew |-> FALSE]
        ELSE LET subscription == found[1]
                 kwargs == StripeService_cancel_subscription(
                               subscription.stripe_subscription_id)
                 answer == Subscription_modify(
                               st, subscription.stripe_subscription_id,
                               kwargs, ok, now)
                 calls  == <<[api |-> "Subscription.modify",
                              id |-> subscription.stripe_subscription_id,
                              kwargs |-> kwargs]>>
             IN  IF answer.raised
                 THEN [raised |-> TRUE, ret |-> None, store |-> store,
                       stripe |-> answer.stripe, calls |-> calls,
                       drew |-> FALSE]
                 ELSE LET updated == [subscription EXCEPT
                              !.status = CANCELED,
                              !.cancel_at_period_end =
                                  answer.obj[1].cancel_at_period_end,
                              !.canceled_at = Some(fromtimestamp(now)),
                              !.updated_at = now]
                      IN  [raised |-> FALSE, ret |-> Some(updated),
                           store |-> DictPut(store, subscription_id, updated),
                           stripe |-> answer.stripe, calls |-> calls,
                           drew |-> TRUE]

\* SubscriptionService.cancel_subscription
SubscriptionService_cancel_subscription(store, st, subscription_id, ok, now) ==
    LET found == DictGet(store, subscription_id)
    IN  IF found = None
        THEN [raised |-> FALSE, ret |-> None, store |-> store, stripe |-> st,
              calls |-> <<>>, drew |-> FALSE]
        ELSE LET subscription == found[1]
                 kwargs == StripeService_cancel_subscription(
                               subscription.stripe_subscription_id)
                 answer == Subscription_modify(
                               st, subscription.stripe_subscription_id,
                               kwargs, ok, now)
                 calls  == <<[api |-> "Subscription.modify",
                              id |-> subscription.stripe_subscription_id,
                              kwargs |-> kwargs]>>
             IN  IF answer.raised
                 THEN [raised |-> TRUE, ret |-> None, store |-> store,
                       stripe |-> answer.stripe, calls |-> calls,
                       drew |-> FALSE]
                 ELSE LET updated == [subscription EXCEPT
                              !.status = CANCELED,
                              !.cancel_at_period_end =
                                  answer.obj[1].cancel_at_period_end,
                              !.canceled_at =
                                  fromtimestamp_if(answer.obj[1].canceled_at),
                              !.updated_at = now]
                      IN  [raised |-> FALSE, ret |-> Some(updated),
                           store |-> DictPut(store, subscription_id, updated),
                           stripe |-> answer.stripe, calls |-> calls,
                           drew |-> TRUE]

----------------------------------------------------------------------------
\* app/services/refund_service.py

\* create_refund, lines 44-46: the amount handed to the gateway
refund_amount_cents(amount) ==
    IF TruthyNum(amount) THEN Some(int(amount[1] * 100)) ELSE None

\* create_refund, lines 56-64: Decimal(stripe_refund.amount) / 100, in
\* thousandths of a major unit
RefundResponse(stripe_refund, reason) ==
    [id |-> stripe_refund.id,
     payment_intent_id |-> stripe_refund.payment_intent,
     amount |-> (stripe_refund.amount * 1000) \div 100,
     currency |-> stripe_refund.currency,
     status |-> stripe_refund.status,
     reason |-> reason,
     created_at |-> stripe_refund.created]

\* create_refund keeping one refund per payment intent: the new record takes
\* the place of an earlier one of the same intent
RefundService_create_refund_latest(store, st, payment_intent_id, amount, reason, ok, t) ==
    LET kwargs == StripeService_create_refund(
                      payment_intent_id, refund_amount_cents(amount), reason)
        answer == Refund_create(st, kwargs, ok, t)
        calls  == <<[api |-> "Refund.create", kwargs |-> kwargs]>>
        Other(x) == x.payment_intent_id # payment_intent_id
    IN  IF answer.raised
        THEN [raised |-> TRUE, ret |-> None, store |-> store,
              stripe |-> answer.stripe, calls |-> calls]
        ELSE LET refund == RefundResponse(answer.obj[1], reason)
             IN  [raised |-> FALSE, ret |-> Some(refund),
                  store |-> Append(SelectSeq(store, Other), refund),
                  stripe |-> answer.stripe, calls |-> calls]

\* create_refund storing a pending record before the provider has answered
RefundService_create_refund_early(store, st, payment_intent_id, amount, reason, ok, t) ==
    LET kwargs == StripeService_create_refund(
                      payment_intent_id, refund_amount_cents(amount), reason)
        answer == Refund_create(st, kwargs, ok, t)
        calls  == <<[api |-> "Refund.create", kwargs |-> kwargs]>>
        early  == [id |-> <<"re", 0>>, payment_intent_id |-> payment_intent_id,
                   amount |-> 0, currency |-> "usd", status |-> "pending",
                   reason |-> reason, created_at |-> t]
    IN  IF answer.raised
        THEN [raised |-> TRUE, ret |-> None,
              store |-> DictPut(store, early.id, early),
              stripe |-> answer.stripe, calls |-> calls]
        ELSE LET refund == RefundResponse(answer.obj[1], reason)
             IN  [raised |-> FALSE, ret |-> Some(refund),
                  store |-> DictPut(store, refund.id, refund),
                  stripe |-> answer.stripe, calls |-> calls]

\* RefundService.create_refund
RefundService_create_refund(store, st, payment_intent_id, amount, reason, ok, t) ==
    LET kwargs == StripeService_create_refund(
                      payment_intent_id, refund_amount_cents(amount), reason)
        answer == Refund_create(st, kwargs, ok, t)
        calls  == <<[api |-> "Refund.create", kwargs |-> kwargs]>>
    IN  IF answer.raised
        THEN [raised |-> TRUE, ret |-> None, store |-> store,
              stripe |-> answer.stripe, calls |-> calls]
        ELSE LET refund == RefundResponse(answer.obj[1], reason)
             IN  [raised |-> FALSE, ret |-> Some(refund),
                  store |-> DictPut(store, refund.id, refund),
                  stripe |-> answer.stripe, calls |-> calls]

\* RefundService.get_refund
RefundService_get_refund(store, refund_id) == DictGet(store, refund_id)

\* RefundService.list_refunds
RefundService_list_refunds(store, payment_intent_id, limit) ==
    LET Match(x) == Some(x.payment_intent_id) = payment_intent_id
        filtered == IF TruthyStr(payment_intent_id)
                    THEN SelectSeq(store, Match) ELSE store
        sorted   == SortDesc(filtered)
    IN  PySlice(sorted, 0, limit)

----------------------------------------------------------------------------
\* app/main.py and the framework in front of the routes

\* a handler for 404 that words the answer differently
not_found_handler_reworded(path) ==
    [status |-> 404,
     body |-> [error |-> <<"M","i","s","s","i","n","g">>,
               message |-> <<"N","o"," ","s","u","c","h"," ",
                             "r","e","s","o","u","r","c","e">>,
               path |-> path]]

\* not_found_handler: registered for status 404, so every HTTPException(404)
\* a route raises is answered with this body, whatever its detail says
not_found_handler(path) ==
    [status |-> 404,
     body |-> [error |-> NOT_FOUND_ERROR, message |-> NOT_FOUND_MESSAGE,
               path |-> path]]

\* internal_error_handler: answers an exception no route caught
internal_error_handler(path) ==
    [status |-> 500,
     body |-> [error |-> "Internal Server Error",
               message |-> "An unexpected error occurred", path |-> path]]

\* FastAPI's answer to a body or query that fails the declared constraints
validation_error(loc) == [status |-> 422, body |-> [detail |-> loc]]

\* HTTPException(status_code, detail) raised by a route
HTTPException(status_code, detail, path) ==
    IF status_code = 404 THEN not_found_handler(path)
    ELSE [status |-> status_code, body |-> [detail |-> detail]]

----------------------------------------------------------------------------
\* app/dependencies.py

\* get_payment_service, get_refund_service, get_subscription_service: each
\* Depends(get_stripe_service) first, then calls the service class
Depends_service(inst, n, cls) ==
    LET gateway == Singleton_call(inst, n, "StripeService")
    IN  Singleton_call(gateway.instances, gateway.built, cls)

----------------------------------------------------------------------------
\* app/api/payments.py

\* the create route with a request model that does not constrain the amount
payments_create_payment_unchecked(store, st, request, test_mode, ok, uuid, now) ==
    LET res == PaymentService_create_payment(store, st, request, test_mode,
                                             ok, uuid, now)
    IN  IF res.raised
        THEN HTTPException(500, <<FAILED_TO_CREATE_PAYMENT, "provider error">>,
                           "/payments/create")
             @@ [store |-> res.store, stripe |-> res.stripe,
                 calls |-> res.calls, drew |-> res.drew]
        ELSE [status |-> 201,
              body |-> [message |-> PAYMENT_CREATED,
                        payment |-> res.ret[1],
                        client_secret |-> res.ret[1].stripe_payment_intent_id],
              store |-> res.store, stripe |-> res.stripe,
              calls |-> res.calls, drew |-> res.drew]

\* POST /payments/create
payments_create_payment(store, st, request, test_mode, ok, uuid, now) ==
    IF ~(request.amount > 0)
    THEN validation_error("amount") @@
         [store |-> store, stripe |-> st, calls |-> <<>>, drew |-> FALSE]
    ELSE LET res == PaymentService_create_payment(store, st, request,
                                                  test_mode, ok, uuid, now)
         IN  IF res.raised
             THEN HTTPException(500, <<FAILED_TO_CREATE_PAYMENT,
                                       "provider error">>, "/payments/create")
                  @@ [store |-> res.store, stripe |-> res.stripe,
                      calls |-> res.calls, drew |-> res.drew]
             ELSE [status |-> 201,
                   body |-> [message |-> PAYMENT_CREATED,
                             payment |-> res.ret[1],
                             client_secret |->
                                 res.ret[1].stripe_payment_intent_id],
                   store |-> res.store, stripe |-> res.stripe,
                   calls |-> res.calls, drew |-> res.drew]

\* GET /payments/{payment_id}
payments_get_payment(store, payment_id) ==
    LET payment == PaymentService_get_payment(store, payment_id)
    IN  IF payment = None
        THEN HTTPException(404, PAYMENT_NOT_FOUND, <<"/payments", payment_id>>)
        ELSE [status |-> 200, body |-> payment[1]]

INVALID_PAYMENT_INTENT == "Payment has no Stripe Payment Intent ID"
FAILED_TO_GET_PAYMENT_STATUS == "Failed to get payment status"

\* the status route answering with the status of the local record
payments_get_payment_status_local(store, st, payment_id, ok) ==
    LET payment == PaymentService_get_payment(store, payment_id)
        path    == <<"/payments", payment_id, "status">>
    IN  IF payment = None
        THEN HTTPException(404, PAYMENT_NOT_FOUND, path) @@ [calls |-> <<>>]
        ELSE IF ~TruthyId(payment[1].stripe_payment_intent_id)
        THEN HTTPException(400, INVALID_PAYMENT_INTENT, path)
             @@ [calls |-> <<>>]
        ELSE [status |-> 200,
              body |-> [payment_id |-> payment_id,
                        status |-> payment[1].status],
              calls |-> <<>>]

\* GET /payments/{payment_id}/status
payments_get_payment_status(store, st, payment_id, ok) ==
    LET payment == PaymentService_get_payment(store, payment_id)
        path    == <<"/payments", payment_id, "status">>
    IN  IF payment = None
        THEN HTTPException(404, PAYMENT_NOT_FOUND, path) @@ [calls |-> <<>>]
        ELSE IF ~TruthyId(payment[1].stripe_payment_intent_id)
        THEN HTTPException(400, INVALID_PAYMENT_INTENT, path)
             @@ [calls |-> <<>>]
        ELSE LET intent == payment[1].stripe_payment_intent_id[1]
                 res    == StripeService_get_payment_intent_status(
                               st, intent, ok)
                 calls  == <<[api |-> "PaymentIntent.retrieve",
                              id |-> intent]>>
             IN  IF res.raised
                 THEN HTTPException(500, <<FAILED_TO_GET_PAYMENT_STATUS,
                                           "provider error">>, path)
                      @@ [calls |-> calls]
                 ELSE [status |-> 200,
                       body |-> [payment_id |-> payment_id,
                                 status |-> res.ret[1]],
                       calls |-> calls]

\* the list route counting the payments of the page as the total
payments_list_payments_counted(store, customer_id, page, per_page) ==
    IF ~(page >= 1) THEN validation_error("page")
    ELSE IF ~(per_page >= 1 /\ per_page <= MAX_PAGE_SIZE)
    THEN validation_error("per_page")
    ELSE [status |-> 200,
          body |-> [payments |-> PaymentService_get_payments(
                                     store, customer_id, page, per_page),
                    total |-> Len(PaymentService_get_payments(
                                      store, customer_id, page, per_page)),
                    page |-> page,
                    per_page |-> per_page]]

\* GET /payments/
payments_list_payments(store, customer_id, page, per_page) ==
    IF ~(page >= 1) THEN validation_error("page")
    ELSE IF ~(per_page >= 1 /\ per_page <= MAX_PAGE_SIZE)
    THEN validation_error("per_page")
    ELSE [status |-> 200,
          body |-> [payments |-> PaymentService_get_payments(
                                     store, customer_id, page, per_page),
                    total |-> Len(store),
                    page |-> page,
                    per_page |-> per_page]]

----------------------------------------------------------------------------
\* app/api/subscriptions.py

SUBSCRIPTION_CREATED == "Subscription created successfully"
FAILED_TO_CREATE_SUBSCRIPTION == "Failed to create subscription"

\* the names bound at module level: the imports (lines 4-15), router, and
\* the four route functions
subscriptions_module_names ==
    {"Optional", "APIRouter", "Depends", "HTTPException", "Query", "status",
     "SubscriptionCreateRequest", "SubscriptionListResponse",
     "get_subscription_service", "SubscriptionService", "ErrorMessages",
     "SuccessMessages", "DEFAULT_PAGE_SIZE", "MAX_PAGE_SIZE", "router",
     "create_subscription", "get_subscription", "cancel_subscription",
     "list_subscriptions"}

\* whether a route body can read a name: it is a parameter of the route or a
\* module-level name; otherwise the read raises NameError
subscriptions_resolves(name, params) ==
    name \in params \cup subscriptions_module_names

\* POST /subscriptions/create
subscriptions_create_subscription(store, st, request, ok, uuid, now) ==
    IF ~(request.quantity > 0)
    THEN validation_error("quantity") @@
         [store |-> store, stripe |-> st, calls |-> <<>>, drew |-> FALSE]
    ELSE IF request.trial_period_days # None
            /\ ~(request.trial_period_days[1] >= 0)
    THEN validation_error("trial_period_days") @@
         [store |-> store, stripe |-> st, calls |-> <<>>, drew |-> FALSE]
    ELSE LET res == SubscriptionService_create_subscription(
                        store, st, request, ok, uuid, now)
         IN  IF res.raised
             THEN HTTPException(500, <<FAILED_TO_CREATE_SUBSCRIPTION,
                                       "provider error">>,
                                "/subscriptions/create")
                  @@ [store |-> res.store, stripe |-> res.stripe,
                      calls |-> res.calls, drew |-> res.drew]
             ELSE [status |-> 201,
                   body |-> [message |-> SUBSCRIPTION_CREATED,
                             subscription |-> res.ret[1]],
                   store |-> res.store, stripe |-> res.stripe,
                   calls |-> res.calls, drew |-> res.drew]

\* GET /subscriptions/{subscription_id}: the route has the one parameter
\* subscription_id and reads subscription_service
subscriptions_get_subscription(store, subscription_id) ==
    IF ~subscriptions_resolves("subscription_service", {"subscription_id"})
    THEN internal_error_handler(<<"/subscriptions", subscription_id>>)
    ELSE LET subscription ==
                 SubscriptionService_get_subscription(store, subscription_id)
         IN  IF subscription = None
             THEN HTTPException(404, "Subscription not found",
                                <<"/subscriptions", subscription_id>>)
             ELSE [status |-> 200, body |-> subscription[1]]

\* POST /subscriptions/{subscription_id}/cancel: the same read, inside a
\* try whose except Exception answers 500
subscriptions_cancel_subscription(store, st, subscription_id, ok, now) ==
    IF ~subscriptions_resolves("subscription_service", {"subscription_id"})
    THEN HTTPException(500, <<"Failed to cancel subscription", "NameError">>,
                       <<"/subscriptions", subscription_id, "cancel">>)
         @@ [store |-> store, stripe |-> st, calls |-> <<>>, drew |-> FALSE]
    ELSE LET res == SubscriptionService_cancel_subscription(
                        store, st, subscription_id, ok, now)
         IN  IF res.raised
             THEN HTTPException(500, <<"Failed to cancel subscription",
                                       "provider error">>,
                                <<"/subscriptions", subscription_id, "cancel">>)
                  @@ [store |-> res.store, stripe |-> res.stripe,
                      calls |-> res.calls, drew |-> res.drew]
             ELSE IF res.ret = None
             THEN HTTPException(404, "Subscription not found",
                                <<"/subscriptions", subscription_id, "cancel">>)
                  @@ [store |-> res.store, stripe |-> res.stripe,
                      calls |-> res.calls, drew |-> res.drew]
             ELSE [status |-> 200,
                   body |-> [message |-> "Subscription cancelled successfully",
                             subscription |-> res.ret[1]],
                   store |-> res.store, stripe |-> res.stripe,
                   calls |-> res.calls, drew |-> res.drew]

\* GET /subscriptions/
subscriptions_list_subscriptions(store, customer_id, page, per_page) ==
    IF ~(page >= 1) THEN validation_error("page")
    ELSE IF ~(per_page >= 1 /\ per_page <= MAX_PAGE_SIZE)
    THEN validation_error("per_page")
    ELSE [status |-> 200,
          body |-> [subscriptions |-> SubscriptionService_get_subscriptions(
                                          store, customer_id, page, per_page),
                    total |-> Len(store),
                    page |-> page,
                    per_page |-> per_page]]

----------------------------------------------------------------------------
\* app/api/refunds.py

REFUND_CREATED == "Refund created successfully"
FAILED_TO_CREATE_REFUND == "Failed to create refund"

\* POST /refunds/create
refunds_create_refund(store, st, request, ok, t) ==
    IF request.amount # None /\ ~(request.amount[1] > 0)
    THEN validation_error("amount") @@
         [store |-> store, stripe |-> st, calls |-> <<>>]
    ELSE LET res == RefundService_create_refund(
                        store, st, request.payment_intent_id, request.amount,
                        request.reason, ok, t)
         IN  IF res.raised
             THEN HTTPException(500, <<FAILED_TO_CREATE_REFUND,
                                       "provider error">>, "/refunds/create")
                  @@ [store |-> res.store, stripe |-> res.stripe,
                      calls |-> res.calls]
             ELSE [status |-> 201,
                   body |-> [message |-> REFUND_CREATED, refund |-> res.ret[1]],
                   store |-> res.store, stripe |-> res.stripe,
                   calls |-> res.calls]

\* GET /refunds/{refund_id}
refunds_get_refund(store, refund_id) ==
    LET refund == RefundService_get_refund(store, refund_id)
    IN  IF refund = None
        THEN HTTPException(404, "Refund not found", <<"/refunds", refund_id>>)
        ELSE [status |-> 200, body |-> refund[1]]

\* GET /refunds/
refunds_list_refunds(store, payment_intent_id, limit) ==
    IF ~(limit <= 100) THEN validation_error("limit")
    ELSE LET listed == RefundService_list_refunds(store, payment_intent_id,
                                                  limit)
         IN  [status |-> 200,
              body |-> [refunds |-> listed, total |-> Len(listed),
                        has_more |-> FALSE]]

----------------------------------------------------------------------------
\* Inputs.

Meta == {<<"order", "42">>}

\* request bodies of POST /payments/create; amounts in thousandths:
\* 1.000, 1.999, 0.005 and the rejected 0
PaymentBodies ==
    { [amount |-> 1000, currency |-> "usd", description |-> None,
       customer_id |-> None, metadata |-> None],
      [amount |-> 1999, currency |-> "eur", description |-> Some("order"),
       customer_id |-> Some("cus_A"), metadata |-> Some(Meta)],
      [amount |-> 1000, currency |-> "eur", description |-> Some(""),
       customer_id |-> Some(""), metadata |-> Some({})],
      [amount |-> 5, currency |-> "usd", description |-> None,
       customer_id |-> Some("cus_A"), metadata |-> None],
      [amount |-> 0, currency |-> "usd", description |-> None,
       customer_id |-> None, metadata |-> None] }

\* the bodies used where only the customer matters
PagingBodies ==
    { [amount |-> 1000, currency |-> "usd", description |-> None,
       customer_id |-> c, metadata |-> None] : c \in {None, Some("cus_A")} }

CustomerFilters == {None, Some(""), Some("cus_A"), Some("cus_B")}
PagingFilters == {None, Some("cus_A")}

\* <<page, per_page>> of a list request: in range, and each way out of range
ValidPageQueries == (1..3) \X (1..2)
SomePageQueries == {<<1, 1>>, <<2, 1>>, <<1, 2>>, <<0, 1>>}
PageQueries == ValidPageQueries
               \cup {<<0, 1>>, <<1, 0>>, <<1, MAX_PAGE_SIZE + 1>>}

\* request bodies of POST /subscriptions/create
SubscriptionBodies ==
    { [customer_id |-> "cus_A", price_id |-> "price_1", quantity |-> 1,
       trial_period_days |-> None, metadata |-> None],
      [customer_id |-> "cus_B", price_id |-> "price_1", quantity |-> 2,
       trial_period_days |-> Some(7), metadata |-> Some(Meta)],
      [customer_id |-> "", price_id |-> "price_1", quantity |-> 1,
       trial_period_days |-> Some(0), metadata |-> Some({})],
      [customer_id |-> "cus_A", price_id |-> "price_1", quantity |-> 0,
       trial_period_days |-> None, metadata |-> None] }

PagingSubscriptionBodies ==
    { [customer_id |-> c, price_id |-> "price_1", quantity |-> 1,
       trial_period_days |-> None, metadata |-> None] :
      c \in {"cus_A", "cus_B"} }

\* request bodies of POST /refunds/create; amounts in thousandths: absent,
\* 0.010, 0.020, 0.005 and the rejected 0
RefundBodies ==
    { [payment_intent_id |-> "pi_paid", amount |-> None, reason |-> None],
      [payment_intent_id |-> "pi_paid", amount |-> Some(10),
       reason |-> Some("duplicate")],
      [payment_intent_id |-> "pi_paid", amount |-> Some(20), reason |-> None],
      [payment_intent_id |-> "pi_paid", amount |-> Some(5), reason |-> None],
      [payment_intent_id |-> "pi_paid", amount |-> Some(0), reason |-> None],
      [payment_intent_id |-> "pi_none", amount |-> None, reason |-> None] }

IntentFilters == {None, Some(""), Some("pi_paid"), Some("pi_none")}
Limits == {0 - 1, 0, 1, 2, MAX_PAGE_SIZE + 1}

\* what the provider can still refund of an intent
RefundableLeft ==
    [pi \in DOMAIN stripe.charges |->
        stripe.charges[pi].amount - stripe.charges[pi].refunded]

RefundsAsked == {<<"re", n>> : n \in 0..Len(stripe.refunds)}

\* the provider's books when the process starts: payment intents charged
\* earlier, each for ChargedCents minor units
ChargedIntents == {"pi_paid"}

\* the values utcnow() can give next: the clock does not go back, and two
\* calls can read the same value
Ticks == {clock, clock + 1}

\* the same for an operation that creates no record: the model stops the
\* clock at MaxClock there
TicksToMax == {t \in Ticks : t <= Max(clock, MaxClock)}

\* ids a caller can ask for: every one issued, and one that never is
UuidsAsked == {<<"uuid", n>> : n \in 0..uuids}

----------------------------------------------------------------------------
\* Requests served one at a time: dependency resolution and the route body
\* of a request run before the next request starts.

Init ==
    \* stripe_service.py line 331 constructs the gateway at import
    /\ instances = [c \in Classes |->
                      IF c = "StripeService" THEN Some(1) ELSE None]
    /\ built = [c \in Classes |-> IF c = "StripeService" THEN 1 ELSE 0]
    /\ payments = <<>>
    /\ refunds = <<>>
    /\ subscriptions = <<>>
    /\ clock = 0
    /\ uuids = 0
    /\ stripe = [intents |-> 0, status |-> <<>>, refunds |-> <<>>,
                 subscriptions |-> <<>>,
                 charges |-> [pi \in ChargedIntents |->
                                [amount |-> ChargedCents, currency |-> "usd",
                                 refunded |-> 0]]]
    /\ reqs = [r \in 1..NumRequests |-> [pc |-> "idle", obj |-> 0]]
    /\ last = [op |-> "none"]

\* A request whose dependencies resolved to dep: dep.obj is the service
\* object the route body works on, dep.instances and dep.built the registry
\* after the resolution.
Resolved(cls) == Depends_service(instances, built, cls)

\* POST /payments/create
ServeCreatePayment(dep, Bodies, Modes, Times, cap) ==
    \E request \in Bodies, test_mode \in Modes, ok \in BOOLEAN,
       now \in Times :
        LET P   == WithNewStores(payments, dep.built["PaymentService"])
            res == payments_create_payment(P[dep.obj], stripe, request,
                       test_mode, ok, <<"uuid", uuids + 1>>, now)
        IN  /\ Len(P[dep.obj]) < cap
            /\ instances' = dep.instances
            /\ built' = dep.built
            /\ payments' = [P EXCEPT ![dep.obj] = res.store]
            /\ stripe' = res.stripe
            /\ uuids' = IF res.drew THEN uuids + 1 ELSE uuids
            /\ clock' = IF res.drew THEN now ELSE clock
            /\ last' = [op |-> "payments.create", obj |-> dep.obj,
                        request |-> request, test_mode |-> test_mode,
                        status |-> res.status, body |-> res.body,
                        calls |-> res.calls]
            /\ UNCHANGED <<refunds, subscriptions>>

\* GET /payments/{payment_id}
ServeGetPayment(dep) ==
    \E payment_id \in UuidsAsked :
        LET P   == WithNewStores(payments, dep.built["PaymentService"])
            res == payments_get_payment(P[dep.obj], payment_id)
        IN  /\ instances' = dep.instances
            /\ built' = dep.built
            /\ payments' = P
            /\ last' = [op |-> "payments.get", obj |-> dep.obj,
                        payment_id |-> payment_id,
                        status |-> res.status, body |-> res.body,
                        calls |-> <<>>]
            /\ UNCHANGED <<refunds, subscriptions, stripe, uuids, clock>>

\* GET /payments/
ServeListPayments(dep, Filters, Queries) ==
    \E customer_id \in Filters, q \in Queries :
        LET page == q[1]
            per_page == q[2]
            P   == WithNewStores(payments, dep.built["PaymentService"])
            res == payments_list_payments(P[dep.obj], customer_id, page,
                                          per_page)
        IN  /\ instances' = dep.instances
            /\ built' = dep.built
            /\ payments' = P
            /\ last' = [op |-> "payments.list", obj |-> dep.obj,
                        customer_id |-> customer_id, page |-> page,
                        per_page |-> per_page,
                        status |-> res.status, body |-> res.body,
                        calls |-> <<>>]
            /\ UNCHANGED <<refunds, subscriptions, stripe, uuids, clock>>

\* POST /subscriptions/create
ServeCreateSubscription(dep, Bodies, Times, cap) ==
    \E request \in Bodies, ok \in BOOLEAN, now \in Times :
        LET S   == WithNewStores(subscriptions,
                                 dep.built["SubscriptionService"])
            res == subscriptions_create_subscription(S[dep.obj], stripe,
                       request, ok, <<"uuid", uuids + 1>>, now)
        IN  /\ Len(S[dep.obj]) < cap
            /\ instances' = dep.instances
            /\ built' = dep.built
            /\ subscriptions' = [S EXCEPT ![dep.obj] = res.store]
            /\ stripe' = res.stripe
            /\ uuids' = IF res.drew THEN uuids + 1 ELSE uuids
            /\ clock' = IF res.drew THEN now ELSE clock
            /\ last' = [op |-> "subscriptions.create", obj |-> dep.obj,
                        request |-> request,
                        status |-> res.status, body |-> res.body,
                        calls |-> res.calls]
            /\ UNCHANGED <<payments, refunds>>

\* the store a route body reaches through the name subscription_service,
\* were it bound to the registered service object
RegisteredSubscriptions ==
    IF instances["SubscriptionService"] = None THEN <<>>
    ELSE subscriptions[instances["SubscriptionService"][1]]

\* GET /subscriptions/{subscription_id}: the route declares no dependency
HttpGetSubscription ==
    \E subscription_id \in UuidsAsked :
        LET res == subscriptions_get_subscription(RegisteredSubscriptions,
                                                  subscription_id)
        IN  /\ last' = [op |-> "subscriptions.get",
                        subscription_id |-> subscription_id,
                        stored |-> SubscriptionService_get_subscription(
                                       RegisteredSubscriptions,
                                       subscription_id),
                        status |-> res.status, body |-> res.body,
                        calls |-> <<>>]
            /\ UNCHANGED <<instances, built, payments, refunds, subscriptions,
                           stripe, uuids, clock, reqs>>

\* POST /subscriptions/{subscription_id}/cancel: no dependency either
HttpCancelSubscription ==
    \E subscription_id \in UuidsAsked, ok \in BOOLEAN, now \in TicksToMax :
        LET res == subscriptions_cancel_subscription(
                       RegisteredSubscriptions, stripe, subscription_id,
                       ok, now)
        IN  /\ subscriptions' =
                   IF instances["SubscriptionService"] = None
                   THEN subscriptions
                   ELSE [subscriptions EXCEPT
                           ![instances["SubscriptionService"][1]] = res.store]
            /\ stripe' = res.stripe
            /\ clock' = IF res.drew THEN now ELSE clock
            /\ last' = [op |-> "subscriptions.cancel",
                        subscription_id |-> subscription_id, ok |-> ok,
                        stored |-> SubscriptionService_get_subscription(
                                       RegisteredSubscriptions,
                                       subscription_id),
                        status |-> res.status, body |-> res.body,
                        calls |-> res.calls]
            /\ UNCHANGED <<instances, built, payments, refunds, uuids, reqs>>

\* GET /subscriptions/
ServeListSubscriptions(dep, Filters, Queries) ==
    \E customer_id \in Filters, q \in Queries :
        LET page == q[1]
            per_page == q[2]
            S   == WithNewStores(subscriptions,
                                 dep.built["SubscriptionService"])
            res == subscriptions_list_subscriptions(S[dep.obj], customer_id,
                                                    page, per_page)
        IN  /\ instances' = dep.instances
            /\ built' = dep.built
            /\ subscriptions' = S
            /\ last' = [op |-> "subscriptions.list", obj |-> dep.obj,
                        customer_id |-> customer_id, page |-> page,
                        per_page |-> per_page,
                        status |-> res.status, body |-> res.body,
                        calls |-> <<>>]
            /\ UNCHANGED <<payments, refunds, stripe, uuids, clock>>

\* SubscriptionService(...).cancel_subscription(subscription_id), called on
\* the service object itself
CallCancelSubscription ==
    \E subscription_id \in UuidsAsked, ok \in BOOLEAN, now \in TicksToMax :
        LET dep == Resolved("SubscriptionService")
            S   == WithNewStores(subscriptions,
                                 dep.built["SubscriptionService"])
            res == SubscriptionService_cancel_subscription(
                       S[dep.obj], stripe, subscription_id, ok, now)
        IN  /\ instances' = dep.instances
            /\ built' = dep.built
            /\ subscriptions' = [S EXCEPT ![dep.obj] = res.store]
            /\ stripe' = res.stripe
            /\ clock' = IF res.drew THEN now ELSE clock
            /\ last' = [op |-> "SubscriptionService.cancel_subscription",
                        obj |-> dep.obj,
                        subscription_id |-> subscription_id, ok |-> ok,
                        before |-> SubscriptionService_get_subscription(
                                       S[dep.obj], subscription_id),
                        raised |-> res.raised, ret |-> res.ret,
                        calls |-> res.calls]
            /\ UNCHANGED <<payments, refunds, uuids, reqs>>

\* POST /refunds/create
ServeCreateRefund(dep, Bodies, Times, cap) ==
    \E request \in Bodies, ok \in BOOLEAN, now \in Times :
        LET R   == WithNewStores(refunds, dep.built["RefundService"])
            res == refunds_create_refund(R[dep.obj], stripe, request, ok, now)
        IN  /\ Len(R[dep.obj]) < cap
            /\ instances' = dep.instances
            /\ built' = dep.built
            /\ refunds' = [R EXCEPT ![dep.obj] = res.store]
            /\ stripe' = res.stripe
            /\ clock' = IF res.status = 201 THEN now ELSE clock
            /\ last' = [op |-> "refunds.create", obj |-> dep.obj,
                        request |-> request, left |-> RefundableLeft,
                        status |-> res.status, body |-> res.body,
                        calls |-> res.calls]
            /\ UNCHANGED <<payments, subscriptions, uuids>>

\* GET /refunds/{refund_id}
ServeGetRefund(dep) ==
    \E refund_id \in RefundsAsked :
        LET R   == WithNewStores(refunds, dep.built["RefundService"])
            res == refunds_get_refund(R[dep.obj], refund_id)
        IN  /\ instances' = dep.instances
            /\ built' = dep.built
            /\ refunds' = R
            /\ last' = [op |-> "refunds.get", obj |-> dep.obj,
                        refund_id |-> refund_id,
                        status |-> res.status, body |-> res.body,
                        calls |-> <<>>]
            /\ UNCHANGED <<payments, subscriptions, stripe, uuids, clock>>

\* GET /refunds/ with the filter and the limit drawn from the given sets
ServeListRefundsOf(dep, Filters, Lims) ==
    \E payment_intent_id \in Filters, limit \in Lims :
        LET R   == WithNewStores(refunds, dep.built["RefundService"])
            res == refunds_list_refunds(R[dep.obj], payment_intent_id, limit)
        IN  /\ instances' = dep.instances
            /\ built' = dep.built
            /\ refunds' = R
            /\ last' = [op |-> "refunds.list", obj |-> dep.obj,
                        payment_intent_id |-> payment_intent_id,
                        limit |-> limit,
                        status |-> res.status, body |-> res.body,
                        calls |-> <<>>]
            /\ UNCHANGED <<payments, subscriptions, stripe, uuids, clock>>

\* GET /refunds/
ServeListRefunds(dep) == ServeListRefundsOf(dep, IntentFilters, Limits)

----------------------------------------------------------------------------
\* The payment routes.

CreatePayment ==
    /\ ServeCreatePayment(Resolved("PaymentService"), PaymentBodies, BOOLEAN,
                          TicksToMax, MaxPayments)
    /\ UNCHANGED reqs

GetPayment ==
    /\ ServeGetPayment(Resolved("PaymentService"))
    /\ UNCHANGED reqs

ListPayments ==
    /\ ServeListPayments(Resolved("PaymentService"), CustomerFilters,
                         PageQueries)
    /\ UNCHANGED reqs

NextPayments == CreatePayment \/ GetPayment \/ ListPayments

SpecPayments == Init /\ [][NextPayments]_vars

----------------------------------------------------------------------------
\* The subscription routes.

CreateSubscription ==
    /\ ServeCreateSubscription(Resolved("SubscriptionService"),
                               SubscriptionBodies, TicksToMax,
                               MaxSubscriptions)
    /\ UNCHANGED reqs

GetSubscription == HttpGetSubscription

CancelSubscription == HttpCancelSubscription

ListSubscriptions ==
    /\ ServeListSubscriptions(Resolved("SubscriptionService"),
                              CustomerFilters, SomePageQueries)
    /\ UNCHANGED reqs

NextSubscriptions ==
    \/ CreateSubscription \/ GetSubscription \/ CancelSubscription
    \/ ListSubscriptions

SpecSubscriptions == Init /\ [][NextSubscriptions]_vars

\* The subscription service itself: create through its route, cancel called
\* on the service object.
CancellableBodies ==
    {b \in SubscriptionBodies : b.quantity > 0 /\ b.customer_id # ""}

CreateCancellable ==
    /\ ServeCreateSubscription(Resolved("SubscriptionService"),
                               CancellableBodies, {clock},
                               MaxSubscriptions)
    /\ UNCHANGED reqs

NextCancel == CreateCancellable \/ CallCancelSubscription

SpecCancel == Init /\ [][NextCancel]_vars

----------------------------------------------------------------------------
\* The refund routes.

CreateRefund ==
    /\ ServeCreateRefund(Resolved("RefundService"), RefundBodies, TicksToMax,
                         MaxRefunds)
    /\ UNCHANGED reqs

GetRefund ==
    /\ ServeGetRefund(Resolved("RefundService"))
    /\ UNCHANGED reqs

ListRefunds ==
    /\ ServeListRefunds(Resolved("RefundService"))
    /\ UNCHANGED reqs

NextRefunds == CreateRefund \/ GetRefund \/ ListRefunds

SpecRefunds == Init /\ [][NextRefunds]_vars

----------------------------------------------------------------------------
\* Listing up to MaxListed records.  The payment service and the
\* subscription service share no state, so a run talks to one of them.

NoPayments == built["PaymentService"] = 0
NoSubscriptions == built["SubscriptionService"] = 0

CreateListedPayment ==
    /\ NoSubscriptions
    /\ ServeCreatePayment(Resolved("PaymentService"), PagingBodies, {FALSE},
                          Ticks, MaxListed)
    /\ UNCHANGED reqs

ListPagedPayments ==
    /\ NoSubscriptions
    /\ ServeListPayments(Resolved("PaymentService"), PagingFilters,
                         ValidPageQueries)
    /\ UNCHANGED reqs

CreateListedSubscription ==
    /\ NoPayments
    /\ ServeCreateSubscription(Resolved("SubscriptionService"),
                               PagingSubscriptionBodies, Ticks, MaxListed)
    /\ UNCHANGED reqs

ListPagedSubscriptions ==
    /\ NoPayments
    /\ ServeListSubscriptions(Resolved("SubscriptionService"), PagingFilters,
                              ValidPageQueries)
    /\ UNCHANGED reqs

NextPaging ==
    \/ CreateListedPayment \/ ListPagedPayments
    \/ CreateListedSubscription \/ ListPagedSubscriptions

SpecPaging == Init /\ [][NextPaging]_vars

----------------------------------------------------------------------------
\* A record read back through the service right after it was created.

\* the record the last call created, if the last call was a create that
\* succeeded
JustCreated ==
    IF last.op = "payments.create" /\ last.status = 201
    THEN Some(last.body.payment)
    ELSE IF last.op = "subscriptions.create" /\ last.status = 201
    THEN Some(last.body.subscription)
    ELSE None

CreateRecordedPayment ==
    /\ NoSubscriptions
    /\ ServeCreatePayment(Resolved("PaymentService"), PaymentBodies, BOOLEAN,
                          TicksToMax, MaxPayments)
    /\ UNCHANGED reqs

\* PaymentService(...).get_payment(payment_id), called on the service object
CallGetPayment ==
    /\ NoSubscriptions
    /\ \E payment_id \in UuidsAsked :
        LET dep == Resolved("PaymentService")
            P   == WithNewStores(payments, dep.built["PaymentService"])
        IN  /\ instances' = dep.instances
            /\ built' = dep.built
            /\ payments' = P
            /\ last' = [op |-> "PaymentService.get_payment", obj |-> dep.obj,
                        id |-> payment_id, created |-> JustCreated,
                        ret |-> PaymentService_get_payment(P[dep.obj],
                                                           payment_id)]
            /\ UNCHANGED <<refunds, subscriptions, stripe, uuids, clock, reqs>>

CreateRecordedSubscription ==
    /\ NoPayments
    /\ ServeCreateSubscription(Resolved("SubscriptionService"),
                               SubscriptionBodies, TicksToMax,
                               MaxSubscriptions)
    /\ UNCHANGED reqs

\* SubscriptionService(...).get_subscription(subscription_id), called on the
\* service object
CallGetSubscription ==
    /\ NoPayments
    /\ \E subscription_id \in UuidsAsked :
        LET dep == Resolved("SubscriptionService")
            S   == WithNewStores(subscriptions,
                                 dep.built["SubscriptionService"])
        IN  /\ instances' = dep.instances
            /\ built' = dep.built
            /\ subscriptions' = S
            /\ last' = [op |-> "SubscriptionService.get_subscription",
                        obj |-> dep.obj, id |-> subscription_id,
                        created |-> JustCreated,
                        ret |-> SubscriptionService_get_subscription(
                                    S[dep.obj], subscription_id)]
            /\ UNCHANGED <<payments, refunds, stripe, uuids, clock, reqs>>

NextRecords ==
    \/ CreateRecordedPayment \/ CallGetPayment
    \/ CreateRecordedSubscription \/ CallGetSubscription

SpecRecords == Init /\ [][NextRecords]_vars

----------------------------------------------------------------------------
\* Requests in flight together.  A route declared async def runs on the event
\* loop without interruption (the service awaits nothing), but its
\* dependency get_payment_service is a plain def, which the framework runs in
\* a worker thread: the lines of Singleton.__call__ of two requests can
\* interleave.  get_stripe_service finds the gateway registered at import.

PaymentClass == "PaymentService"

\* the one body the requests send
ConcurrentBodies ==
    { [amount |-> 1000, currency |-> "usd", description |-> None,
       customer_id |-> None, metadata |-> None] }

\* a request arrives: its dependency starts in a worker thread
Arrive(r) ==
    /\ reqs[r].pc = "idle"
    /\ reqs' = [reqs EXCEPT ![r] = [pc |-> "line23", obj |-> 0]]
    /\ UNCHANGED <<instances, built, payments, refunds, subscriptions, clock,
                   uuids, stripe, last>>

\* Singleton.__call__ line 23: if cls not in cls._instances
CheckInstance(r) ==
    /\ reqs[r].pc = "line23"
    /\ reqs' = [reqs EXCEPT ![r].pc =
                   IF Singleton_absent(instances, PaymentClass)
                   THEN "line24" ELSE "line25"]
    /\ UNCHANGED <<instances, built, payments, refunds, subscriptions, clock,
                   uuids, stripe, last>>

\* line 24: cls._instances[cls] = super().__call__(*args, **kwargs)
ConstructInstance(r) ==
    /\ reqs[r].pc = "line24"
    /\ built' = [built EXCEPT ![PaymentClass] = @ + 1]
    /\ instances' = Singleton_register(instances, PaymentClass,
                                       built[PaymentClass] + 1)
    /\ payments' = WithNewStores(payments, built[PaymentClass] + 1)
    /\ reqs' = [reqs EXCEPT ![r].pc = "line25"]
    /\ UNCHANGED <<refunds, subscriptions, clock, uuids, stripe, last>>

\* line 25: return cls._instances[cls]
ReturnInstance(r) ==
    /\ reqs[r].pc = "line25"
    /\ reqs' = [reqs EXCEPT ![r] =
                   [pc |-> "route",
                    obj |-> Singleton_return(instances, PaymentClass)]]
    /\ UNCHANGED <<instances, built, payments, refunds, subscriptions, clock,
                   uuids, stripe, last>>

\* the route body of POST /payments/create, on the object the dependency gave
RunCreatePayment(r) ==
    /\ reqs[r].pc = "route"
    /\ ServeCreatePayment([instances |-> instances, built |-> built,
                           obj |-> reqs[r].obj],
                          ConcurrentBodies, {FALSE}, {clock}, MaxCreates)
    /\ reqs' = [reqs EXCEPT ![r] = [pc |-> "idle", obj |-> 0]]

NextConcurrent ==
    \E r \in 1..NumRequests :
        \/ Arrive(r) \/ CheckInstance(r) \/ ConstructInstance(r)
        \/ ReturnInstance(r) \/ RunCreatePayment(r)

SpecConcurrent == Init /\ [][NextConcurrent]_vars

----------------------------------------------------------------------------
\* The status route, with the provider moving intents on its own.

\* GET /payments/{payment_id}/status
ServeGetPaymentStatus(dep) ==
    \E payment_id \in UuidsAsked, ok \in BOOLEAN :
        LET P   == WithNewStores(payments, dep.built["PaymentService"])
            res == payments_get_payment_status(P[dep.obj], stripe,
                                               payment_id, ok)
        IN  /\ instances' = dep.instances
            /\ built' = dep.built
            /\ payments' = P
            /\ last' = [op |-> "payments.status", obj |-> dep.obj,
                        payment_id |-> payment_id, ok |-> ok,
                        status |-> res.status, body |-> res.body,
                        calls |-> res.calls]
            /\ UNCHANGED <<refunds, subscriptions, stripe, uuids, clock>>

\* the statuses an intent takes at the provider after its creation
SettledStatuses == {"processing", "succeeded", "canceled"}

\* the provider moves an intent to another status (the customer pays, the
\* payment fails, the intent is canceled in the dashboard)
ProviderMovesIntent ==
    /\ \E n \in 1..stripe.intents, s \in SettledStatuses :
           /\ stripe.status[n] # s
           /\ stripe' = [stripe EXCEPT !.status[n] = s]
    /\ last' = [op |-> "provider"]
    /\ UNCHANGED <<instances, built, payments, refunds, subscriptions, clock,
                   uuids, reqs>>

CreateTrackedPayment ==
    /\ ServeCreatePayment(Resolved("PaymentService"), ConcurrentBodies,
                          BOOLEAN, {clock}, MaxPayments)
    /\ UNCHANGED reqs

GetPaymentStatus ==
    /\ ServeGetPaymentStatus(Resolved("PaymentService"))
    /\ UNCHANGED reqs

NextStatus == CreateTrackedPayment \/ ProviderMovesIntent \/ GetPaymentStatus

SpecStatus == Init /\ [][NextStatus]_vars

----------------------------------------------------------------------------
\* The three creates side by side, with small inputs.

\* bodies with which the provider accepts, the provider rejects (0.005 is
\* no minor unit), and the route rejects
ServicePaymentBodies ==
    {b \in PaymentBodies : b.customer_id = None \/ b.amount = 5}

ServiceSubscriptionBodies ==
    {b \in SubscriptionBodies : b.customer_id = "cus_A"}

\* one minor unit of a known intent, and an intent the provider rejects
ServiceRefundBodies ==
    {b \in RefundBodies :
        \/ b.amount = Some(10)
        \/ b.payment_intent_id = "pi_none"}

CreateAnyPayment ==
    /\ ServeCreatePayment(Resolved("PaymentService"), ServicePaymentBodies,
                          {FALSE}, {clock}, MaxCreates)
    /\ UNCHANGED reqs

CreateAnySubscription ==
    /\ ServeCreateSubscription(Resolved("SubscriptionService"),
                               ServiceSubscriptionBodies, {clock}, MaxCreates)
    /\ UNCHANGED reqs

CreateAnyRefund ==
    /\ ServeCreateRefund(Resolved("RefundService"), ServiceRefundBodies,
                         {clock}, MaxCreates)
    /\ UNCHANGED reqs

NextCreates == CreateAnyPayment \/ CreateAnySubscription \/ CreateAnyRefund

SpecCreates == Init /\ [][NextCreates]_vars

----------------------------------------------------------------------------
\* Every operation of the three services.  The services share no state, so
\* a run talks to one of them.

DomainClasses == {"PaymentService", "RefundService", "SubscriptionService"}

\* no service other than cls was constructed
Only(cls) == \A c \in DomainClasses \ {cls} : built[c] = 0

\* the ids of the records the instances of a service hold
StoredIds(stores) ==
    UNION {Keys(stores[i]) : i \in 1..Len(stores)}

PaymentOperation ==
    /\ Only("PaymentService")
    /\ \/ ServeCreatePayment(Resolved("PaymentService"),
                             ServicePaymentBodies, BOOLEAN, {clock},
                             MaxCreates)
       \/ ServeListPayments(Resolved("PaymentService"), PagingFilters,
                            SomePageQueries)
       \/ \E id \in StoredIds(payments) \cup {<<"uuid", 0>>} :
            LET dep == Resolved("PaymentService")
                P   == WithNewStores(payments, dep.built["PaymentService"])
            IN  /\ instances' = dep.instances
                /\ built' = dep.built
                /\ payments' = P
                /\ last' = [op |-> "PaymentService.get_payment",
                            obj |-> dep.obj, id |-> id,
                            ret |-> PaymentService_get_payment(P[dep.obj], id),
                            calls |-> <<>>]
                /\ UNCHANGED <<refunds, subscriptions, stripe, uuids, clock>>
    /\ UNCHANGED reqs

SubscriptionOperation ==
    /\ Only("SubscriptionService")
    /\ \/ /\ ServeCreateSubscription(Resolved("SubscriptionService"),
                                     CancellableBodies, {clock}, MaxCreates)
          /\ UNCHANGED reqs
       \/ /\ ServeListSubscriptions(Resolved("SubscriptionService"),
                                    PagingFilters, SomePageQueries)
          /\ UNCHANGED reqs
       \/ CallCancelSubscription
       \/ /\ \E id \in StoredIds(subscriptions) \cup {<<"uuid", 0>>} :
                LET dep == Resolved("SubscriptionService")
                    S   == WithNewStores(subscriptions,
                                         dep.built["SubscriptionService"])
                IN  /\ instances' = dep.instances
                    /\ built' = dep.built
                    /\ subscriptions' = S
                    /\ last' = [op |-> "SubscriptionService.get_subscription",
                                obj |-> dep.obj, id |-> id,
                                ret |-> SubscriptionService_get_subscription(
                                            S[dep.obj], id),
                                calls |-> <<>>]
          /\ UNCHANGED <<payments, refunds, stripe, uuids, clock, reqs>>

RefundOperation ==
    /\ Only("RefundService")
    /\ \/ ServeCreateRefund(Resolved("RefundService"), RefundBodies, {clock},
                            MaxCreates)
       \/ ServeListRefundsOf(Resolved("RefundService"), IntentFilters,
                             {1, MAX_PAGE_SIZE})
       \/ ServeGetRefund(Resolved("RefundService"))
    /\ UNCHANGED reqs

NextServices == PaymentOperation \/ SubscriptionOperation \/ RefundOperation

SpecServices == Init /\ [][NextServices]_vars

----------------------------------------------------------------------------
\* The payment service over the life of its records: create, get, list,
\* update_payment_status and process_webhook, the last two called on the
\* service object.

\* the body that fills every optional field
LifecycleBodies == {b \in PaymentBodies : b.amount = 1999}

\* statuses a caller sets
StatusesSet == {"canceled"}

\* events the provider sends: about an intent it issued or one it did not,
\* of the two types the service handles and one it ignores
WebhookEvents ==
    {[type |-> t, data |-> [object |-> [id |-> <<"pi", n>>]]] :
        t \in {"payment_intent.succeeded", "payment_intent.payment_failed",
               "charge.refunded"},
        n \in 0..stripe.intents}

CreateLivingPayment ==
    /\ ServeCreatePayment(Resolved("PaymentService"), LifecycleBodies,
                          {FALSE}, TicksToMax, MaxPayments)
    /\ UNCHANGED reqs

GetLivingPayment ==
    /\ ServeGetPayment(Resolved("PaymentService"))
    /\ UNCHANGED reqs

ListLivingPayments ==
    /\ ServeListPayments(Resolved("PaymentService"), {None},
                         {<<1, MAX_PAGE_SIZE>>})
    /\ UNCHANGED reqs

\* PaymentService(...).update_payment_status(payment_id, status)
CallUpdatePaymentStatus ==
    \E payment_id \in UuidsAsked, status \in StatusesSet, now \in {clock} :
        LET dep == Resolved("PaymentService")
            P   == WithNewStores(payments, dep.built["PaymentService"])
            res == PaymentService_update_payment_status(
                       P[dep.obj], payment_id, status, now)
        IN  /\ instances' = dep.instances
            /\ built' = dep.built
            /\ payments' = [P EXCEPT ![dep.obj] = res.store]
            /\ clock' = IF res.drew THEN now ELSE clock
            /\ last' = [op |-> "PaymentService.update_payment_status",
                        obj |-> dep.obj, payment_id |-> payment_id,
                        new_status |-> status, ret |-> res.ret,
                        calls |-> <<>>]
            /\ UNCHANGED <<refunds, subscriptions, stripe, uuids, reqs>>

\* PaymentService(...).process_webhook(event_data)
CallProcessWebhook ==
    \E event_data \in WebhookEvents, now \in {clock} :
        LET dep == Resolved("PaymentService")
            P   == WithNewStores(payments, dep.built["PaymentService"])
            res == PaymentService_process_webhook(P[dep.obj], event_data, now)
        IN  /\ instances' = dep.instances
            /\ built' = dep.built
            /\ payments' = [P EXCEPT ![dep.obj] = res.store]
            /\ clock' = IF res.drew THEN now ELSE clock
            /\ last' = [op |-> "PaymentService.process_webhook",
                        obj |-> dep.obj, event_data |-> event_data,
                        was |-> [i \in 1..Len(P[dep.obj]) |->
                                    P[dep.obj][i].status],
                        calls |-> <<>>]
            /\ UNCHANGED <<refunds, subscriptions, stripe, uuids, reqs>>

NextLifecycle ==
    \/ CreateLivingPayment \/ GetLivingPayment \/ ListLivingPayments
    \/ CallUpdatePaymentStatus \/ CallProcessWebhook

SpecLifecycle == Init /\ [][NextLifecycle]_vars

----------------------------------------------------------------------------
\* Requests in flight together.  Every route is an "async def" whose body
\* calls the service and the provider's client without awaiting: a body that
\* has started keeps the event loop's thread until it returns, the time it
\* waits for the provider included.  The services are called from such
\* bodies; the provider answers when it pleases, or never.

\* the thread given up for the time a body waits for the provider, as a body
\* that awaited the call would
Holds_awaiting(pc) == pc = "update.write"

\* whether a coroutine at pc has the event loop's thread
Holds(pc) == pc \in {"payments.create.wait", "cancel.wait", "update.write"}

\* no other request has the thread
LoopFree(r) == \A q \in 1..NumRequests : q # r => ~Holds(reqs[q].pc)

LoopIdle == \A q \in 1..NumRequests : reqs[q].pc = "idle"

\* creates that have arrived and not answered
CreatesInFlight ==
    Cardinality({q \in 1..NumRequests :
                    reqs[q].pc \in {"payments.create.ready",
                                    "payments.create.wait"}})

\* a request arrives, its dependency is resolved in a worker thread, and its
\* coroutine is ready to run
ArriveFor(r) ==
    /\ reqs[r].pc = "idle"
    /\ \E kind \in {"payments.create.ready", "payments.get.ready",
                     "update.ready", "cancel.ready"} :
        LET cls == IF kind = "cancel.ready" THEN "SubscriptionService"
                   ELSE "PaymentService"
            dep == Resolved(cls)
            P   == WithNewStores(payments, dep.built["PaymentService"])
        IN  /\ Only(cls)
            /\ kind = "payments.create.ready" =>
                   Len(P[dep.obj]) + CreatesInFlight < MaxCreates
            /\ kind = "cancel.ready" => Len(StoreOf(subscriptions, dep.obj)) > 0
            /\ instances' = dep.instances
            /\ built' = dep.built
            /\ payments' = P
            /\ subscriptions' = WithNewStores(subscriptions,
                                    dep.built["SubscriptionService"])
            /\ reqs' = [reqs EXCEPT ![r] =
                           [pc |-> kind, obj |-> dep.obj]]
    /\ UNCHANGED <<refunds, clock, uuids, stripe, last>>

\* subscriptions made before the requests overlap
SeedSubscription ==
    /\ LoopIdle
    /\ Only("SubscriptionService")
    /\ last.op \in {"none", "subscriptions.create"}
    /\ ServeCreateSubscription(Resolved("SubscriptionService"),
                               {b \in CancellableBodies :
                                   b.trial_period_days = None},
                               {clock}, MaxCreates)
    /\ UNCHANGED reqs

\* create_payment up to the provider call: the request goes out
PaymentCreateSend(r) ==
    /\ reqs[r].pc = "payments.create.ready"
    /\ LoopFree(r)
    /\ reqs' = [reqs EXCEPT ![r].pc = "payments.create.wait"]
    /\ UNCHANGED <<instances, built, payments, refunds, subscriptions, clock,
                   uuids, stripe, last>>

\* the provider's answer arrives, and the body runs to its response
PaymentCreateReturn(r) ==
    /\ reqs[r].pc = "payments.create.wait"
    /\ ServeCreatePayment([instances |-> instances, built |-> built,
                           obj |-> reqs[r].obj],
                          ConcurrentBodies, {FALSE}, {clock},
                          MaxCreates + NumRequests)
    /\ reqs' = [reqs EXCEPT ![r] = [pc |-> "idle", obj |-> 0]]

\* the body of GET /payments/{payment_id}
PaymentGetRun(r) ==
    /\ reqs[r].pc = "payments.get.ready"
    /\ LoopFree(r)
    /\ ServeGetPayment([instances |-> instances, built |-> built,
                        obj |-> reqs[r].obj])
    /\ reqs' = [reqs EXCEPT ![r] = [pc |-> "idle", obj |-> 0]]

\* update_payment_status line 140: payment = self._payments.get(payment_id)
UpdateRead(r) ==
    /\ reqs[r].pc = "update.ready"
    /\ LoopFree(r)
    /\ \E payment_id \in Keys(payments[reqs[r].obj]) \cup {<<"uuid", 0>>},
          status \in StatusesSet :
           reqs' = [reqs EXCEPT ![r] =
                       [pc |-> "update.write", obj |-> reqs[r].obj,
                        id |-> payment_id, status |-> status]]
    /\ UNCHANGED <<instances, built, payments, refunds, subscriptions, clock,
                   uuids, stripe, last>>

\* update_payment_status lines 141-146
UpdateWrite(r) ==
    /\ reqs[r].pc = "update.write"
    /\ LoopFree(r)
    /\ LET res == PaymentService_update_payment_status(
                      payments[reqs[r].obj], reqs[r].id, reqs[r].status,
                      clock)
       IN  /\ payments' = [payments EXCEPT ![reqs[r].obj] = res.store]
           /\ last' = [op |-> "PaymentService.update_payment_status",
                       obj |-> reqs[r].obj, payment_id |-> reqs[r].id,
                       new_status |-> reqs[r].status, ret |-> res.ret,
                       calls |-> <<>>]
    /\ reqs' = [reqs EXCEPT ![r] = [pc |-> "idle", obj |-> 0]]
    /\ UNCHANGED <<instances, built, refunds, subscriptions, clock, uuids,
                   stripe>>

\* cancel_subscription lines 129-134: the record is read and, when there is
\* one, the request to the provider goes out
CancelRead(r) ==
    /\ reqs[r].pc = "cancel.ready"
    /\ LoopFree(r)
    /\ \E subscription_id \in Keys(subscriptions[reqs[r].obj])
                                  \cup {<<"uuid", 0>>} :
        IF SubscriptionService_get_subscription(
               subscriptions[reqs[r].obj], subscription_id) = None
        THEN /\ reqs' = [reqs EXCEPT ![r] = [pc |-> "idle", obj |-> 0]]
             /\ last' = [op |-> "SubscriptionService.cancel_subscription",
                         obj |-> reqs[r].obj,
                         subscription_id |-> subscription_id, ok |-> TRUE,
                         before |-> None, raised |-> FALSE, ret |-> None,
                         calls |-> <<>>]
        ELSE /\ reqs' = [reqs EXCEPT ![r] =
                            [pc |-> "cancel.wait", obj |-> reqs[r].obj,
                             id |-> subscription_id]]
             /\ last' = last
    /\ UNCHANGED <<instances, built, payments, refunds, subscriptions, clock,
                   uuids, stripe>>

\* the provider's answer arrives; cancel_subscription lines 137-144
CancelReturn(r) ==
    /\ reqs[r].pc = "cancel.wait"
    /\ \E ok \in BOOLEAN :
        LET store == subscriptions[reqs[r].obj]
            res == SubscriptionService_cancel_subscription(
                       store, stripe, reqs[r].id, ok, clock)
        IN  /\ subscriptions' = [subscriptions EXCEPT
                                    ![reqs[r].obj] = res.store]
            /\ stripe' = res.stripe
            /\ last' = [op |-> "SubscriptionService.cancel_subscription",
                        obj |-> reqs[r].obj,
                        subscription_id |-> reqs[r].id, ok |-> ok,
                        before |-> SubscriptionService_get_subscription(
                                       store, reqs[r].id),
                        raised |-> res.raised, ret |-> res.ret,
                        calls |-> res.calls]
    /\ reqs' = [reqs EXCEPT ![r] = [pc |-> "idle", obj |-> 0]]
    /\ UNCHANGED <<instances, built, payments, refunds, clock, uuids>>

NextLoop ==
    \/ SeedSubscription
    \/ \E r \in 1..NumRequests :
        \/ ArriveFor(r) \/ PaymentCreateSend(r) \/ PaymentCreateReturn(r)
        \/ PaymentGetRun(r) \/ UpdateRead(r) \/ UpdateWrite(r)
        \/ CancelRead(r) \/ CancelReturn(r)

SpecLoop == Init /\ [][NextLoop]_vars

\* the event loop takes its ready coroutines in turn, so one that can have
\* the thread again and again does get it; nothing makes the provider answer
SpecLoopFair ==
    /\ SpecLoop
    /\ \A r \in 1..NumRequests :
        /\ SF_vars(PaymentCreateSend(r))
        /\ SF_vars(PaymentGetRun(r))
        /\ SF_vars(UpdateRead(r))
        /\ SF_vars(UpdateWrite(r))
        /\ SF_vars(CancelRead(r))

----------------------------------------------------------------------------
\* The payment routes that are wired, create, get, status and list, with the
\* provider moving intents on its own.

NextRoutes == NextStatus \/ GetLivingPayment \/ ListLivingPayments

SpecRoutes == Init /\ [][NextRoutes]_vars

----------------------------------------------------------------------------
\* Requests out of range next to requests in range: creates with amount 0
\* and amount 1, lists with every way out of range.

CreatePaymentInOrOut ==
    /\ ServeCreatePayment(Resolved("PaymentService"),
                          {b \in PaymentBodies : b.amount \in {0, 1000}},
                          BOOLEAN, {clock}, MaxPayments)
    /\ UNCHANGED reqs

ListPaymentsInOrOut ==
    /\ ServeListPayments(Resolved("PaymentService"), PagingFilters,
                         PageQueries)
    /\ UNCHANGED reqs

NextRanges == CreatePaymentInOrOut \/ ListPaymentsInOrOut

SpecRanges == Init /\ [][NextRanges]_vars

----------------------------------------------------------------------------
\* Properties.

\* round(x) of a Decimal x given in thousandths: to the nearest integer,
\* a tie to the even neighbour
RoundHalfEven(x) ==
    LET q == x \div 1000
        r == x % 1000
    IN  IF r > 500 \/ (r = 500 /\ q % 2 = 1) THEN q + 1 ELSE q

\* C1: every POST /payments/create that succeeds returns and stores a record
\* with the amount and currency of the request, and makes exactly one
\* PaymentIntent.create call whose amount is round(amount * 100).
C1_AmountRounded ==
    (last.op = "payments.create" /\ last.status = 201) =>
        /\ last.body.payment.amount = last.request.amount
        /\ last.body.payment.currency = last.request.currency
        /\ PaymentService_get_payment(payments[last.obj],
                                      last.body.payment.id)
               = Some(last.body.payment)
        /\ Len(last.calls) = 1
        /\ last.calls[1].api = "PaymentIntent.create"
        /\ last.calls[1].kwargs.amount
               = RoundHalfEven(last.request.amount * 100)

\* no request is between its arrival and its response
Quiescent == \A r \in 1..NumRequests : reqs[r].pc = "idle"

\* the store a later request reaches: that of the registered instance
RegisteredPayments ==
    IF instances[PaymentClass] = None THEN <<>>
    ELSE payments[instances[PaymentClass][1]]

\* positions of a store, as a set
Positions(store) == 1..Len(store)

\* C2: once N concurrent creations have answered, the payment store holds
\* exactly N records with distinct ids, and get finds each of the N ids.
C2_NoLostWrite ==
    Quiescent =>
        /\ Len(RegisteredPayments) = uuids
        /\ \A i, j \in Positions(RegisteredPayments) :
               RegisteredPayments[i].id = RegisteredPayments[j].id => i = j
        /\ \A n \in 1..uuids :
               PaymentService_get_payment(RegisteredPayments, <<"uuid", n>>)
                   # None

\* C3: get(id) on the service right after a create that succeeded returns
\* the record the create returned, field for field, for payments and for
\* subscriptions.
C3_GetAfterCreate ==
    /\ (last.op = "PaymentService.get_payment" /\ last.created # None
            /\ last.id = last.created[1].id)
           => last.ret = last.created
    /\ (last.op = "SubscriptionService.get_subscription"
            /\ last.created # None /\ last.id = last.created[1].id)
           => last.ret = last.created

\* a payment with description, customer and metadata was created and then
\* read back
C3_Witness ==
    /\ last.op = "PaymentService.get_payment"
    /\ last.created # None
    /\ last.id = last.created[1].id
    /\ last.created[1].metadata = Some(Meta)
    /\ last.created[1].amount = 1999
    /\ last.ret # None

\* the records a list is about: all of them when no filter is given, else
\* those of the customer
PaymentsOf(store, filter) ==
    {store[i] : i \in {k \in 1..Len(store) :
                          filter = None \/ store[k].customer_id = filter}}

SubscriptionsOf(store, filter) ==
    {store[i] : i \in {k \in 1..Len(store) :
                          filter = None \/ Some(store[k].customer_id) = filter}}

\* listed is positions (page-1)*per_page+1 .. page*per_page of an ordering of
\* the set of records by created_at, latest first: it has the length of that
\* range cut at the end of the ordering, no record twice, no later record
\* after an earlier one, and its j-th record can stand at position
\* (page-1)*per_page+j (fewer than that many records are later, and at least
\* that many are not earlier)
IsPageOf(listed, records, page, per_page) ==
    LET offset == (page - 1) * per_page
        n      == Cardinality(records)
    IN  /\ Len(listed) = Max(0, Min(per_page, n - offset))
        /\ \A j \in 1..Len(listed) :
               /\ listed[j] \in records
               /\ \A i \in 1..(j - 1) :
                      /\ listed[i] # listed[j]
                      /\ listed[i].created_at >= listed[j].created_at
               /\ Cardinality({y \in records :
                                  y.created_at > listed[j].created_at})
                      <= offset + j - 1
               /\ Cardinality({y \in records :
                                  y.created_at >= listed[j].created_at})
                      >= offset + j

\* C4: a list request with page >= 1 and per_page >= 1, of payments or of
\* subscriptions, answers with exactly the records at positions
\* (page-1)*per_page+1 .. page*per_page of the filtered records ordered by
\* creation time, latest first.
C4_ListIsPage ==
    /\ (last.op = "payments.list" /\ last.page >= 1 /\ last.per_page >= 1)
           => /\ last.status = 200
              /\ IsPageOf(last.body.payments,
                          PaymentsOf(payments[last.obj], last.customer_id),
                          last.page, last.per_page)
    /\ (last.op = "subscriptions.list" /\ last.page >= 1
            /\ last.per_page >= 1)
           => /\ last.status = 200
              /\ IsPageOf(last.body.subscriptions,
                          SubscriptionsOf(subscriptions[last.obj],
                                          last.customer_id),
                          last.page, last.per_page)

\* page 2 of five payments, two to a page, created at more than one time
C4_Witness ==
    /\ last.op = "payments.list"
    /\ last.customer_id = None
    /\ last.page = 2
    /\ last.per_page = 2
    /\ Len(payments[last.obj]) = 5
    /\ Len(last.body.payments) = 2
    /\ last.body.payments[1].created_at > last.body.payments[2].created_at

\* what the service's list returns for the last list request
ListedByService ==
    PaymentService_get_payments(payments[last.obj], last.customer_id,
                                last.page, last.per_page)

\* the list has only records of the customer asked for, is empty when the
\* store has none of them, and the route answers 200 with it for every
\* page and per_page it admits
OnlyOfCustomer ==
    /\ \A i \in 1..Len(ListedByService) :
           ListedByService[i].customer_id = last.customer_id
    /\ (\A i \in 1..Len(payments[last.obj]) :
            payments[last.obj][i].customer_id # last.customer_id)
           => ListedByService = <<>>
    /\ (last.page >= 1 /\ last.per_page >= 1
            /\ last.per_page <= MAX_PAGE_SIZE)
           => /\ last.status = 200
              /\ last.body.payments = ListedByService

\* C5 as stated: a list with a customer-id filter returns only records of
\* that customer, and an empty sequence, never an error, when the store has
\* no record of that customer, whatever the store, page and per_page.
C5_FilterAnyValue ==
    (last.op = "payments.list" /\ last.customer_id # None) => OnlyOfCustomer

\* C5 amended: the same for a filter value that is not the empty string.
C5_FilterNonEmpty ==
    (last.op = "payments.list" /\ TruthyStr(last.customer_id))
        => OnlyOfCustomer

\* a customer without records was asked for while the store has records
C5_Witness ==
    /\ last.op = "payments.list"
    /\ last.customer_id = Some("cus_B")
    /\ Len(payments[last.obj]) >= 1
    /\ last.status = 200
    /\ last.body.payments = <<>>

\* C6: a refund request without an amount makes one Refund.create call that
\* carries the payment intent and no amount, and when the provider accepts
\* it, all that was left of the charge is refunded.
C6_NoAmountSent ==
    (last.op = "refunds.create" /\ last.request.amount = None) =>
        /\ Len(last.calls) = 1
        /\ last.calls[1].api = "Refund.create"
        /\ DOMAIN last.calls[1].kwargs = {"payment_intent"}
        /\ last.calls[1].kwargs.payment_intent = last.request.payment_intent_id
        /\ last.status = 201 =>
               /\ last.body.refund.amount
                      = (last.left[last.request.payment_intent_id] * 1000)
                            \div 100
               /\ RefundableLeft[last.request.payment_intent_id] = 0

\* a refund without amount was accepted after a part of the charge had been
\* refunded already
C6_Witness ==
    /\ last.op = "refunds.create"
    /\ last.request.amount = None
    /\ last.status = 201
    /\ last.left["pi_paid"] < ChargedCents
    /\ last.left["pi_paid"] > 0
    /\ RefundableLeft["pi_paid"] = 0

\* C7: a cancel of a stored subscription, the provider answering, returns
\* the record with status canceled and leaves that record in the store,
\* also when the subscription was canceled before.
C7_CancelTwice ==
    (last.op = "SubscriptionService.cancel_subscription"
        /\ last.before # None /\ last.ok) =>
        /\ ~last.raised
        /\ last.ret # None
        /\ last.ret[1].id = last.subscription_id
        /\ last.ret[1].status = CANCELED
        /\ SubscriptionService_get_subscription(subscriptions[last.obj],
                                                last.subscription_id)
               = last.ret

\* the second cancel of a subscription: it was canceled already
C7_Witness ==
    /\ last.op = "SubscriptionService.cancel_subscription"
    /\ last.before # None
    /\ last.before[1].status = CANCELED
    /\ last.ok
    /\ last.ret # None
    /\ last.ret[1].status = CANCELED

\* str.lower() of a character
UpperCase == <<"A","B","C","D","E","F","G","H","I","J","K","L","M",
               "N","O","P","Q","R","S","T","U","V","W","X","Y","Z">>
LowerCase == <<"a","b","c","d","e","f","g","h","i","j","k","l","m",
               "n","o","p","q","r","s","t","u","v","w","x","y","z">>
Lower(c) ==
    IF \E i \in 1..Len(UpperCase) : UpperCase[i] = c
    THEN LowerCase[CHOOSE i \in 1..Len(UpperCase) : UpperCase[i] = c]
    ELSE c

\* needle.lower() in text.lower()
ContainsCI(text, needle) ==
    \E i \in 1..(Len(text) - Len(needle) + 1) :
        \A j \in 1..Len(needle) : Lower(text[i + j - 1]) = Lower(needle[j])

NotFoundText == <<"n","o","t"," ","f","o","u","n","d">>

\* C8: GET /payments/{id} with an id that is no key of the payment store
\* answers 404 with a body in which "not found" occurs, in any casing.
C8_UnknownPayment404 ==
    (last.op = "payments.get"
        /\ last.payment_id \notin Keys(payments[last.obj])) =>
        /\ last.status = 404
        /\ \/ ContainsCI(last.body.error, NotFoundText)
           \/ ContainsCI(last.body.message, NotFoundText)

\* an id that was never issued is asked for while the store has records
C8_Witness ==
    /\ last.op = "payments.get"
    /\ Len(payments[last.obj]) >= 1
    /\ last.payment_id \notin Keys(payments[last.obj])
    /\ last.status = 404

\* C9: GET /subscriptions/{id} answers 200 with the stored record when id is
\* a key of the subscription store, and 404 when it is not.
C9_GetSubscription ==
    last.op = "subscriptions.get" =>
        /\ last.stored # None =>
               (last.status = 200 /\ last.body = last.stored[1])
        /\ last.stored = None => last.status = 404

\* C10: POST /subscriptions/{id}/cancel answers 200 with a message and the
\* subscription when id is a key of the store and the provider answers, and
\* 404 when id is not in the store.
C10_CancelSubscription ==
    last.op = "subscriptions.cancel" =>
        /\ (last.stored # None /\ last.ok) =>
               /\ last.status = 200
               /\ DOMAIN last.body = {"message", "subscription"}
        /\ last.stored = None => last.status = 404

\* the store of the last call with the provider reference of one record
\* taken away
WithoutReference(store, i) ==
    [store EXCEPT ![i].stripe_payment_intent_id = None]

\* C11: GET /payments/{id}/status answers 404 for an id that is not stored;
\* 400, without a gateway call, for a stored record that has no provider
\* reference; otherwise it makes one retrieve call and answers 200 with the
\* status the provider has for the intent now, or 500 when the call fails.
C11_StatusFromProvider ==
    last.op = "payments.status" =>
        LET store  == payments[last.obj]
            stored == PaymentService_get_payment(store, last.payment_id)
        IN  /\ stored = None => (last.status = 404 /\ last.calls = <<>>)
            /\ stored # None =>
                  /\ Len(last.calls) = 1
                  /\ last.calls[1].id = stored[1].stripe_payment_intent_id[1]
                  /\ last.ok =>
                        /\ last.status = 200
                        /\ last.body.payment_id = last.payment_id
                        /\ last.body.status =
                               stripe.status[last.calls[1].id[2]]
                  /\ ~last.ok => last.status = 500
            /\ \A i \in 1..Len(store), ok \in BOOLEAN :
                   LET res == payments_get_payment_status(
                                  WithoutReference(store, i), stripe,
                                  store[i].id, ok)
                   IN  res.status = 400 /\ res.calls = <<>>

\* the provider reports an intent as processing while the local record still
\* says pending
C11_Witness ==
    /\ last.op = "payments.status"
    /\ last.status = 200
    /\ last.body.status = "processing"
    /\ PaymentService_get_payment(payments[last.obj], last.payment_id)[1].status
           = PENDING
    /\ Len(payments[last.obj]) >= 2

\* the store of instance obj of a service, empty before its construction

\* the stores after a step hold what they held before it
StoresKept(before, after) ==
    /\ Len(after) >= Len(before)
    /\ \A i \in 1..Len(after) : after[i] = StoreOf(before, i)

CreateRoutes == {"payments.create", "refunds.create", "subscriptions.create"}

\* C12: a create of a payment, refund or subscription whose gateway call
\* fails (the call is made and the provider creates nothing) answers 500 and
\* leaves the payment, refund and subscription stores as they were.
C12_FailureKeepsStores ==
    [][(last'.op \in CreateRoutes /\ Len(last'.calls) = 1 /\ stripe' = stripe)
         => /\ last'.status = 500
            /\ StoresKept(payments, payments')
            /\ StoresKept(refunds, refunds')
            /\ StoresKept(subscriptions, subscriptions')]_vars

\* a refund create failed at the provider while each of the three stores
\* held a record
C12_Witness ==
    /\ last.op = "refunds.create"
    /\ last.status = 500
    /\ Len(last.calls) = 1
    /\ StoredIds(payments) # {}
    /\ StoredIds(refunds) # {}
    /\ StoredIds(subscriptions) # {}

ServiceReads ==
    {"payments.get", "payments.list", "PaymentService.get_payment",
     "subscriptions.list", "SubscriptionService.get_subscription",
     "refunds.get", "refunds.list"}

\* C13: every create that reaches its service, and every cancel of a stored
\* subscription, makes exactly one gateway call, whether the provider
\* accepts or not; the get and list operations make none.
C13_OneGatewayCall ==
    /\ (last.op \in CreateRoutes /\ last.status # 422)
           => Len(last.calls) = 1
    /\ (last.op = "SubscriptionService.cancel_subscription"
            /\ last.before # None)
           => Len(last.calls) = 1
    /\ last.op \in ServiceReads => last.calls = <<>>

\* a payment create that the provider refused
C13_Witness ==
    /\ last.op = "payments.create"
    /\ last.status = 500
    /\ Len(last.calls) = 1
    /\ StoredIds(payments) # {}

\* the refunds a list is about: all of them when no filter value is given
\* (absent or empty), else those of the payment intent
RefundsOf(store, filter) ==
    {store[i] : i \in {k \in 1..Len(store) :
                          ~TruthyStr(filter)
                          \/ Some(store[k].payment_intent_id) = filter}}

\* C14: every answer of GET /refunds/ holds the refunds that match the
\* filter, latest first, cut to at most limit records, and has_more false.
C14_RefundsCutToLimit ==
    (last.op = "refunds.list" /\ last.status = 200) =>
        /\ IsPageOf(last.body.refunds,
                    RefundsOf(refunds[last.obj], last.payment_intent_id),
                    1, last.limit)
        /\ last.body.has_more = FALSE

\* the request the step answered is a payment create with amount <= 0, or
\* a payment list with page < 1 or per_page outside 1..MAX_PAGE_SIZE
OutOfRange(call) ==
    \/ call.op = "payments.create" /\ call.request.amount <= 0
    \/ /\ call.op = "payments.list"
       /\ \/ call.page < 1
          \/ call.per_page < 1
          \/ call.per_page > MAX_PAGE_SIZE

\* the step made no gateway call, drew no id, and left the provider and the
\* stores as they were
NothingDone ==
    /\ last'.calls = <<>>
    /\ stripe' = stripe
    /\ uuids' = uuids
    /\ StoresKept(payments, payments')
    /\ StoresKept(refunds, refunds')
    /\ StoresKept(subscriptions, subscriptions')

\* C15 as stated: such a request is answered 400, with nothing done.
C15_Rejected400 ==
    [][OutOfRange(last') => (last'.status = 400 /\ NothingDone)]_vars

\* C15 amended: such a request is answered 422, with nothing done.
C15_Rejected422 ==
    [][OutOfRange(last') => (last'.status = 422 /\ NothingDone)]_vars

\* a create with amount 0 was rejected while the store held a record
C15_Witness ==
    /\ last.op = "payments.create"
    /\ last.request.amount = 0
    /\ last.status = 422
    /\ StoredIds(payments) # {}

\* C16: a refund request with an accepted amount (> 0) makes one
\* Refund.create call whose amount field is the amount in minor units; the
\* field is never left out.
C16_AmountSent ==
    (/\ last.op = "refunds.create"
     /\ last.request.amount # None
     /\ last.status # 422) =>
        /\ Len(last.calls) = 1
        /\ last.calls[1].api = "Refund.create"
        /\ "amount" \in DOMAIN last.calls[1].kwargs
        /\ last.calls[1].kwargs.amount = int(last.request.amount[1] * 100)

\* the status under which the last create stored its record
StoredStatus ==
    DictGet(subscriptions[last.obj], last.body.subscription.id)[1].status

\* the last create sent a trial length to the provider
TrialForwarded == "trial_period_days" \in DOMAIN last.calls[1].kwargs

\* a subscription create that reached the service: the local status is
\* trialing exactly when asked(request), and the trial length goes to the
\* provider, unchanged, exactly in those cases
TrialRule(asked) ==
    (last.op = "subscriptions.create" /\ last.status # 422) =>
        /\ Len(last.calls) = 1
        /\ TrialForwarded <=> asked
        /\ TrialForwarded =>
               last.calls[1].kwargs.trial_period_days
                   = last.request.trial_period_days[1]
        /\ last.status = 201 =>
               /\ StoredStatus \in {ACTIVE, TRIALING}
               /\ StoredStatus = TRIALING <=> asked
               /\ StoredStatus = TRIALING <=> TrialForwarded

\* C17 as stated: trialing exactly when the request carries a trial length
\* (0 included), active otherwise, and the length is forwarded exactly when
\* the local status is trialing.
C17_TrialWhenAsked == TrialRule(last.request.trial_period_days # None)

\* C17 amended: trialing exactly when the request carries a trial length
\* greater than 0, active otherwise, and the length is forwarded exactly
\* when the local status is trialing.
C17_TrialWhenPositive == TrialRule(TruthyNum(last.request.trial_period_days))

\* a create with a trial of 0 days was stored next to a record on trial
C17_Witness ==
    /\ last.op = "subscriptions.create"
    /\ last.status = 201
    /\ last.request.trial_period_days = Some(0)
    /\ StoredStatus = ACTIVE
    /\ ~TrialForwarded
    /\ \E i \in 1..Len(subscriptions[last.obj]) :
           subscriptions[last.obj][i].status = TRIALING

\* the provider's subscription object behind a stored record, as the
\* provider holds it now
ProviderSubscription(st, record) ==
    LET i == CHOOSE k \in 1..Len(st.subscriptions) :
                 Some(st.subscriptions[k].id) = record.stripe_subscription_id
    IN  st.subscriptions[i]

\* C18: a cancel of an id that is not stored returns None, calls no
\* provider and leaves the store alone; a cancel of a stored id that the
\* provider answers leaves the record canceled, with the provider's
\* cancel_at_period_end and canceled_at, and with its id, customer and
\* provider subscription id as they were.
C18_CancelTakesProviderFields ==
    [][last'.op = "SubscriptionService.cancel_subscription" =>
        /\ last'.before = None =>
               /\ ~last'.raised
               /\ last'.ret = None
               /\ last'.calls = <<>>
               /\ stripe' = stripe
               /\ StoresKept(subscriptions, subscriptions')
        /\ (last'.before # None /\ ~last'.raised) =>
               LET old == last'.before[1]
                   new == SubscriptionService_get_subscription(
                              subscriptions'[last'.obj],
                              last'.subscription_id)
                   answer == ProviderSubscription(stripe', old)
               IN  /\ new # None
                   /\ new[1].status = CANCELED
                   /\ new[1].cancel_at_period_end = answer.cancel_at_period_end
                   /\ answer.canceled_at # None
                   /\ new[1].canceled_at
                          = Some(fromtimestamp(answer.canceled_at[1]))
                   /\ new[1].id = old.id
                   /\ new[1].customer_id = old.customer_id
                   /\ new[1].stripe_subscription_id
                          = old.stripe_subscription_id]_vars

\* an active subscription was canceled at a later time than it was created,
\* next to another stored subscription
C18_Witness ==
    /\ last.op = "SubscriptionService.cancel_subscription"
    /\ last.before # None
    /\ ~last.raised
    /\ last.before[1].status # CANCELED
    /\ last.before[1].canceled_at = None
    /\ last.ret # None
    /\ last.ret[1].canceled_at # None
    /\ last.ret[1].updated_at > last.before[1].created_at
    /\ Len(subscriptions[last.obj]) = 2

\* the fields of a payment record that are set at creation for good
Frozen(payment) ==
    [id |-> payment.id, amount |-> payment.amount,
     currency |-> payment.currency, description |-> payment.description,
     customer_id |-> payment.customer_id,
     stripe_payment_intent_id |-> payment.stripe_payment_intent_id,
     metadata |-> payment.metadata, created_at |-> payment.created_at]

\* C19: over every step of the payment service (create, get, list,
\* update_payment_status, process_webhook) each stored id stays stored, a
\* create stores under an id that was not stored, and every field of a
\* stored record other than status and updated_at keeps its value.
C19_PaymentsKept ==
    [][/\ Len(payments') >= Len(payments)
       /\ \A o \in 1..Len(payments) :
            /\ Len(payments'[o]) >= Len(payments[o])
            /\ \A i \in 1..Len(payments[o]) :
                 LET old == payments[o][i]
                     new == PaymentService_get_payment(payments'[o], old.id)
                 IN  /\ new # None
                     /\ Frozen(new[1]) = Frozen(old)
            /\ Cardinality(Keys(payments'[o])) = Len(payments'[o])]_vars

\* a webhook moved one of two stored payments to succeeded after its
\* creation
C19_Witness ==
    /\ last.op = "PaymentService.process_webhook"
    /\ Len(payments[last.obj]) = 2
    /\ \E i \in 1..2 :
         /\ payments[last.obj][i].status = SUCCEEDED
         /\ payments[last.obj][i].updated_at
                > payments[last.obj][i].created_at
         /\ Some(last.event_data.data.object.id)
                = payments[last.obj][i].stripe_payment_intent_id

\* C20: a refund stored under its id is what get_refund(id) returns after
\* every later step of the refund service, later creates included: same
\* record, same field values.
C20_RefundsKept ==
    [][/\ Len(refunds') >= Len(refunds)
       /\ \A o \in 1..Len(refunds) :
            \A i \in 1..Len(refunds[o]) :
                RefundService_get_refund(refunds'[o], refunds[o][i].id)
                    = Some(refunds[o][i])]_vars

\* the first refund was read back after a later refund had been stored
C20_Witness ==
    /\ last.op = "refunds.get"
    /\ last.status = 200
    /\ Len(refunds[last.obj]) >= 2
    /\ last.body = refunds[last.obj][1]
    /\ last.body.created_at < refunds[last.obj][2].created_at

\* C21: update_payment_status(id, s) on a stored id sets that record's
\* status to s and its updated_at to the time of the call, every other field
\* of it and every other record staying as they were; on an id that is not
\* stored it returns None and leaves the store as it was.
C21_UpdateStatusFrame ==
    [][last'.op = "PaymentService.update_payment_status" =>
        LET before == StoreOf(payments, last'.obj)
            after  == payments'[last'.obj]
            found  == PaymentService_get_payment(before, last'.payment_id)
        IN  /\ StoresKept([payments EXCEPT ![last'.obj] = after], payments')
            /\ found = None =>
                   /\ after = before
                   /\ last'.ret = None
            /\ found # None =>
                   /\ Len(after) = Len(before)
                   /\ \A i \in 1..Len(before) :
                        IF before[i].id = last'.payment_id
                        THEN after[i] = [before[i] EXCEPT
                                            !.status = last'.new_status,
                                            !.updated_at = clock']
                        ELSE after[i] = before[i]
                   /\ last'.ret = PaymentService_get_payment(
                                      after, last'.payment_id)]_vars

\* the older of two stored payments was given a new status later than it
\* was created
C21_Witness ==
    /\ last.op = "PaymentService.update_payment_status"
    /\ last.ret # None
    /\ Len(payments[last.obj]) = 2
    /\ payments[last.obj][1] = last.ret[1]
    /\ last.ret[1].status = "canceled"
    /\ last.ret[1].updated_at > last.ret[1].created_at
    /\ payments[last.obj][2].status = PENDING

\* C22: under every interleaving of concurrent requests at most one instance
\* of each service class is constructed, and every request in its route body
\* holds the instance every other request holds.
C22_OneInstancePerClass ==
    /\ \A c \in Classes : built[c] <= 1
    /\ \A r, q \in 1..NumRequests :
           (reqs[r].pc = "route" /\ reqs[q].pc = "route")
               => reqs[r].obj = reqs[q].obj

\* request r is between the read of a record and its write-back
Between(r) == reqs[r].pc \in {"update.write", "cancel.wait"}

\* the store request r works on
WorkedOn(stores_p, stores_s, r) ==
    IF reqs[r].pc = "update.write" THEN StoreOf(stores_p, reqs[r].obj)
    ELSE StoreOf(stores_s, reqs[r].obj)

C24_GetNotBlocked ==
    \A r \in 1..NumRequests :
        (reqs[r].pc = "payments.get.ready") ~> (reqs[r].pc = "idle")

\* the stored payments that carry the intent id of an event
Matching(store, event_data) ==
    {i \in 1..Len(store) :
        store[i].stripe_payment_intent_id = Some(event_data.data.object.id)}

\* the status an event type stands for, None for a type that is not handled
StatusNamed(type) ==
    IF type = "payment_intent.succeeded" THEN Some(SUCCEEDED)
    ELSE IF type = "payment_intent.payment_failed" THEN Some(FAILED)
    ELSE None

\* C25: process_webhook with a payment_intent.succeeded event whose intent
\* id is that of a stored payment sets the payment's status to succeeded,
\* with a payment_intent.payment_failed event to failed; an event of another
\* type, or for an intent no stored payment carries, leaves the payment
\* store as it was.
C25_WebhookSetsStatus ==
    [][last'.op = "PaymentService.process_webhook" =>
        LET before == StoreOf(payments, last'.obj)
            after  == payments'[last'.obj]
            hits   == Matching(before, last'.event_data)
            named  == StatusNamed(last'.event_data.type)
        IN  /\ StoresKept([payments EXCEPT ![last'.obj] = after], payments')
            /\ (hits = {} \/ named = None) => after = before
            /\ (hits # {} /\ named # None) =>
                   /\ Len(after) = Len(before)
                   /\ \A i \in hits :
                        /\ after[i].status = named[1]
                        /\ after[i].id = before[i].id]_vars

\* the first of two stored payments was set to failed by an event about its
\* intent, the other being pending still
C25_Witness ==
    /\ last.op = "PaymentService.process_webhook"
    /\ last.event_data.type = "payment_intent.payment_failed"
    /\ Len(payments[last.obj]) = 2
    /\ Matching(payments[last.obj], last.event_data) = {1}
    /\ payments[last.obj][1].status = FAILED
    /\ payments[last.obj][2].status = PENDING

\* every stored payment is pending
AllPending ==
    \A o \in 1..Len(payments) :
        \A i \in 1..Len(payments[o]) : payments[o][i].status = PENDING

\* C26: through the routes create, get, status and list every stored payment
\* stays pending, whatever the provider reports and in test mode too, and
\* the status route leaves the store as it was.
C26_AlwaysPending ==
    [][/\ AllPending'
       /\ last'.op = "payments.status" => StoresKept(payments, payments')]_vars

\* the status route reported a payment made in test mode as succeeded while
\* its record is pending
C26_Witness ==
    /\ last.op = "payments.status"
    /\ last.status = 200
    /\ last.body.status = "succeeded"
    /\ Len(payments[last.obj]) >= 1
    /\ AllPending

\* C27: a refund list with an accepted limit (any integer <= 100) holds at
\* most max(limit, 0) refunds, and its total is the number of refunds it
\* holds.
C27_AtMostLimit ==
    (last.op = "refunds.list" /\ last.status = 200) =>
        /\ Len(last.body.refunds) <= (IF last.limit > 0 THEN last.limit ELSE 0)
        /\ last.body.total = Len(last.body.refunds)

\* the records a list response holds, and the store it was taken from
Listed ==
    IF last.op = "payments.list" THEN last.body.payments
    ELSE last.body.subscriptions

ListedFrom ==
    IF last.op = "payments.list" THEN payments[last.obj]
    ELSE subscriptions[last.obj]

\* C28: in a payment list and in a subscription list response total is the
\* number of all records of the store, whatever the customer filter, page and
\* per_page, and the records returned are at most per_page and at most total.
C28_TotalIsStoreSize ==
    (last.op \in {"payments.list", "subscriptions.list"}
        /\ last.status = 200) =>
        /\ last.body.total = Len(ListedFrom)
        /\ Len(Listed) <= last.per_page
        /\ Len(Listed) <= last.body.total

\* a list for one customer returned fewer payments than the total it names
C28_Witness ==
    /\ last.op = "payments.list"
    /\ last.status = 200
    /\ last.customer_id # None
    /\ Len(Listed) >= 1
    /\ Len(Listed) < last.per_page
    /\ last.body.total >= 3
    /\ Len(Listed) < last.body.total

\* C29: when the provider call of a cancel of a stored id fails, the failure
\* reaches the caller and the stored record is as it was before the call:
\* status, cancel_at_period_end, canceled_at and updated_at included.
C29_FailedCancelKeepsRecord ==
    [][(/\ last'.op = "SubscriptionService.cancel_subscription"
        /\ last'.before # None
        /\ ~last'.ok) =>
           /\ last'.raised
           /\ last'.ret = None
           /\ Len(last'.calls) = 1
           /\ StoresKept(subscriptions, subscriptions')
           /\ SubscriptionService_get_subscription(
                  subscriptions'[last'.obj], last'.subscription_id)
                  = last'.before]_vars

\* the cancel of an active subscription failed at the provider, after the
\* cancel of another had gone through
C29_Witness ==
    /\ last.op = "SubscriptionService.cancel_subscription"
    /\ last.before # None
    /\ last.raised
    /\ last.before[1].status = ACTIVE
    /\ Len(subscriptions[last.obj]) = 2
    /\ \E i \in 1..2 : subscriptions[last.obj][i].status = CANCELED
    /\ \E i \in 1..2 : subscriptions[last.obj][i] = last.before[1]

\* a store in which every payment carries the intent id of the first
Twins(store) ==
    [i \in 1..Len(store) |->
        [store[i] EXCEPT !.stripe_payment_intent_id =
                             store[1].stripe_payment_intent_id]]

\* the event of a type about the intent of the first payment of a store
EventAbout(store, type) ==
    [type |-> type,
     data |-> [object |-> [id |-> store[1].stripe_payment_intent_id[1]]]]

\* C30: after a payment_intent.succeeded or payment_intent.payment_failed
\* event for the intent of a stored payment the payment has the status the
\* event names, whatever it had before, so that the last event of a sequence
\* decides; and in a store where several payments carry one intent id an
\* event sets the first of them in store order and no other.
C30_LastEventDecides ==
    last.op = "PaymentService.process_webhook" =>
        LET store == payments[last.obj]
            hits  == Matching(store, last.event_data)
            named == StatusNamed(last.event_data.type)
        IN  /\ (hits # {} /\ named # None) =>
                   \E i \in hits :
                       /\ \A k \in hits : i <= k
                       /\ store[i].status = named[1]
            /\ store # <<>> =>
                   \A type \in {"payment_intent.succeeded",
                                "payment_intent.payment_failed"} :
                       LET res == PaymentService_process_webhook(
                                      Twins(store), EventAbout(store, type),
                                      clock).store
                       IN  /\ res[1].status = StatusNamed(type)[1]
                           /\ \A i \in 2..Len(store) : res[i] = Twins(store)[i]

\* an event set a payment that had succeeded to failed, in a store of two
C30_Witness ==
    /\ last.op = "PaymentService.process_webhook"
    /\ last.event_data.type = "payment_intent.payment_failed"
    /\ Len(payments[last.obj]) = 2
    /\ \E i \in Matching(payments[last.obj], last.event_data) :
           /\ last.was[i] = SUCCEEDED
           /\ payments[last.obj][i].status = FAILED

====
